---- MODULE Spec2Model ----
(***************************************************************************)
(* A model of the hr-recruiting backend: the chi router with its           *)
(* middleware chain, the REST handlers that relay to Hub-HRMS over         *)
(* GraphQL, the upload service and the background email tasks; and of the   *)
(* Svelte frontend: the jobs store, the Home page and the job detail page  *)
(* with its application form, against any HTTP server.                     *)
(*                                                                         *)
(* Text that the code parses (query parameters, the Authorization header,  *)
(* file names) is a sequence of one-character strings, so that parsing is  *)
(* computed and not assumed.  JSON values are records [t, v] tagged with   *)
(* their JSON type.                                                        *)
(***************************************************************************)
EXTENDS Integers, Sequences, FiniteSets, TLC

VARIABLES
    sendGridKey,   \* EmailService.sendGridKey, fixed at construction
    pc,            \* "idle": waiting for a request; "respond": a handler has
                   \* started its background task and is about to write its
                   \* response; "done": the response is written
    req,           \* the request being served
    resp,          \* the HTTP response written for req
    upstream,      \* the GraphQL requests sent to Hub-HRMS while serving req
    storage,       \* the S3 calls made while serving req
    started,       \* the email sends started (go statements) while serving req
    tasks,         \* the background email goroutines that have not finished
    held,          \* the handler's local result, held between go and respond
    mail,          \* the sends that have returned since the last request began
    page,          \* the page the frontend router has mounted: "", "Home", "JobDetail"
    jobsStore,     \* the value of the writable jobs store
    fetches,       \* the fetchJobs calls begun so far, each "pending", "ok" or "failed"
    detail         \* the JobDetail component: its variables, the positions of
                   \* onMount and handleSubmit, the requests handleSubmit has sent
                   \* to the REST API

\* the variables of the frontend
browser == <<page, jobsStore, fetches, detail>>

vars == <<sendGridKey, pc, req, resp, upstream, storage, started, tasks, held, mail,
          browser>>

----------------------------------------------------------------------------
(* Bounds of the model *)

\* the most background email tasks alive at once
MaxTasks == 1
\* how far below the lower limits and above the upper limit the numeric
\* query parameters range
MaxOver == 2
\* the most jobs in a page returned by upstream
MaxJobs == 1

----------------------------------------------------------------------------
(* Text *)

Digits == <<"0", "1", "2", "3", "4", "5", "6", "7", "8", "9">>

IsDigit(c) == \E i \in 1..10 : Digits[i] = c

DigitVal(c) == (CHOOSE i \in 1..10 : Digits[i] = c) - 1

RECURSIVE NatStr(_)
NatStr(n) ==
    IF n < 10 THEN <<Digits[n + 1]>>
    ELSE NatStr(n \div 10) \o <<Digits[(n % 10) + 1]>>

\* the decimal text a client writes for the integer n
Itoa(n) == IF n < 0 THEN <<"-">> \o NatStr(-n) ELSE NatStr(n)

RECURSIVE DigitsValue(_, _)
DigitsValue(s, acc) ==
    IF s = <<>> THEN [err |-> FALSE, n |-> acc]
    ELSE IF ~IsDigit(Head(s)) THEN [err |-> TRUE, n |-> 0]
    ELSE DigitsValue(Tail(s), acc * 10 + DigitVal(Head(s)))

AtoiNoSign(s) ==
    IF s = <<>> THEN [err |-> TRUE, n |-> 0]
    ELSE DigitsValue(s, 0)

\* strconv.Atoi: an optional sign, then one or more decimal digits
Atoi(s) ==
    IF s = <<>> THEN [err |-> TRUE, n |-> 0]
    ELSE IF Head(s) = "-"
         THEN LET r == AtoiNoSign(Tail(s)) IN [err |-> r.err, n |-> 0 - r.n]
    ELSE IF Head(s) = "+" THEN AtoiNoSign(Tail(s))
    ELSE AtoiNoSign(s)

RECURSIVE SplitAcc(_, _, _)
SplitAcc(s, sep, cur) ==
    IF s = <<>> THEN <<cur>>
    ELSE IF Head(s) = sep THEN <<cur>> \o SplitAcc(Tail(s), sep, <<>>)
    ELSE SplitAcc(Tail(s), sep, Append(cur, Head(s)))

\* strings.Split(s, sep) for a one-character separator
Split(s, sep) == SplitAcc(s, sep, <<>>)

\* strings.ToLower on the letters of the alphabet
UpperCase == <<"A", "B", "C", "D", "E", "F", "G", "H", "I", "J", "K", "L", "M",
               "N", "O", "P", "Q", "R", "S", "T", "U", "V", "W", "X", "Y", "Z">>
LowerCase == <<"a", "b", "c", "d", "e", "f", "g", "h", "i", "j", "k", "l", "m",
               "n", "o", "p", "q", "r", "s", "t", "u", "v", "w", "x", "y", "z">>

LowerChar(c) ==
    IF \E i \in 1..26 : UpperCase[i] = c
    THEN LowerCase[CHOOSE i \in 1..26 : UpperCase[i] = c]
    ELSE c

ToLower(s) == [i \in 1..Len(s) |-> LowerChar(s[i])]

\* filepath.Ext: the suffix starting at the last dot of the last path
\* element, empty when that element has no dot
Ext(name) ==
    LET stops == {i \in 1..Len(name) : name[i] = "." \/ name[i] = "/"}
        last  == CHOOSE i \in stops : \A j \in stops : j <= i
    IN  IF stops = {} THEN <<>>
        ELSE IF name[last] = "/" THEN <<>>
        ELSE SubSeq(name, last, Len(name))

----------------------------------------------------------------------------
(* JSON values and maps *)

JNull == [t |-> "null", v |-> <<>>]
JStr(s) == [t |-> "string", v |-> s]
JNum(n) == [t |-> "number", v |-> n]
JBool(b) == [t |-> "bool", v |-> b]
JArr(a) == [t |-> "array", v |-> a]
JObj(m) == [t |-> "object", v |-> m]
\* a request body that is not JSON at all
NotJSON == [t |-> "invalid", v |-> <<>>]

EmptyMap == [k \in {} |-> JNull]

\* m with key k set to value x (a Go map assignment)
MapSet(m, k, x) == [j \in DOMAIN m \cup {k} |-> IF j = k THEN x ELSE m[j]]

\* the map over the keys of f whose value is set
Present(f, unset) == [k \in {j \in DOMAIN f : f[j] # unset} |-> f[k]]

\* url.Values.Get: the value of the key, empty when the key is not given
Get(q, k) == IF k \in DOMAIN q THEN q[k] ELSE <<>>

\* json.Decoder.Decode into a map[string]interface{}: an object decodes to
\* its members, null leaves the map nil, anything else is an error
DecodeMap(body) ==
    IF body.t = "object" THEN [err |-> FALSE, m |-> body.v]
    ELSE IF body.t = "null" THEN [err |-> FALSE, m |-> EmptyMap]
    ELSE [err |-> TRUE, m |-> EmptyMap]

----------------------------------------------------------------------------
(* The gateway client *)

IsNullData(d) == d.t = "null"

\* C13 mutant: a reply with GraphQL errors treated as a failure
QueryStrict(reply) ==
    IF reply.transport # "ok" \/ reply.status # 200 \/ ~reply.decodable
         \/ reply.errors > 0
    THEN [err |-> TRUE, data |-> JNull]
    ELSE [err |-> FALSE, data |-> reply.data]

\* HubHRMSClient.Query on an upstream reply: a transport error, a status
\* other than 200 and an undecodable body are errors; errors[] is only logged
Query(reply) ==
    IF reply.transport # "ok" THEN [err |-> TRUE, data |-> JNull]
    ELSE IF reply.status # 200 THEN [err |-> TRUE, data |-> JNull]
    ELSE IF ~reply.decodable THEN [err |-> TRUE, data |-> JNull]
    ELSE [err |-> FALSE, data |-> reply.data]

\* HubHRMSClient.Mutate
Mutate(reply) == Query(reply)

\* one GraphQL request as Hub-HRMS sees it, with the reply it gave
Call(op, variables, reply) == [op |-> op, variables |-> variables, reply |-> reply]

----------------------------------------------------------------------------
(* Responses *)

NoHeaders == [k \in {} |-> 0]

StatusText(status) ==
    CASE status = 400 -> "Bad Request"
      [] status = 401 -> "Unauthorized"
      [] status = 404 -> "Not Found"
      [] status = 500 -> "Internal Server Error"
      [] OTHER -> ""

\* respondJSON
respondJSON(status, data) ==
    [status |-> status, ctype |-> "application/json", headers |-> NoHeaders,
     body |-> data]

\* the JSON encoding of an ErrorResponse, with its omitempty fields; a
\* message is the sequence of the strings it is concatenated from
ErrorResponse(error, message, details, status) ==
    LET all == [error   |-> JStr(error),
                message |-> JStr(message),
                details |-> IF details THEN JStr("err.Error()") ELSE JNull,
                status  |-> JNum(status)]
        kept == {"error", "status"}
                  \cup (IF message = <<>> THEN {} ELSE {"message"})
                  \cup (IF details THEN {"details"} ELSE {})
    IN  JObj([k \in kept |-> all[k]])

\* respondError; hasErr says whether err is non-nil
respondError(status, message, hasErr) ==
    respondJSON(status, ErrorResponse(StatusText(status), message, hasErr, status))

\* http.Error: a plain-text body
HttpError(message, status) ==
    [status |-> status, ctype |-> "text/plain; charset=utf-8",
     headers |-> NoHeaders, body |-> [t |-> "text", v |-> message]]

\* middleware.Recoverer: a handler that panics is answered 500, no body
Recovered ==
    [status |-> 500, ctype |-> "", headers |-> NoHeaders,
     body |-> [t |-> "empty", v |-> <<>>]]

----------------------------------------------------------------------------
(* Configuration *)

\* the default of AWS_S3_BUCKET
S3Bucket == "hr-recruiting-resumes"

\* the values SENDGRID_API_KEY may have: not configured, configured
SendGridKeys == {"", "SG.key"}

----------------------------------------------------------------------------
(* The router and its middleware *)

Bearer == <<"B", "e", "a", "r", "e", "r">>

\* AuthMiddleware: what it does with the Authorization header.  next says
\* whether the next handler runs, user whether the context carries a user.
AuthMiddleware(authHeader) ==
    IF authHeader = <<>> THEN [next |-> TRUE, user |-> FALSE]
    ELSE LET parts == Split(authHeader, " ")
         IN  IF Len(parts) # 2 \/ parts[1] # Bearer
             THEN [next |-> FALSE, user |-> FALSE]
             ELSE [next |-> TRUE, user |-> TRUE]

\* C9 mutant: RequireAuth letting every request through
RequireAuthOpen(user) == TRUE

\* RequireAuth: whether the next handler runs
RequireAuth(user) == user

PublicRoutes ==
    {"ListJobs", "GetJob", "IncrementView", "SubmitApplication",
     "UploadResume", "GetPresignedURL"}

ProtectedRoutes ==
    {"CreateJob", "UpdateJob", "PublishJob", "CloseJob", "DeleteJob",
     "GenerateDescription",
     "ListApplications", "GetApplication", "UpdateStatus", "AddNote",
     "ScoreApplication", "BulkUpdateStatus",
     "GetMetrics", "GetJobPerformance", "GetPipeline", "GetTrends",
     "GetCandidate", "UpdateCandidate"}

\* the routes mounted on the root router: the health checks and the proxy
RootRoutes == {"Health", "Liveness", "Readiness", "ProxyHandler"}

Routes == RootRoutes \cup PublicRoutes \cup ProtectedRoutes

\* the middleware chain in front of a route's handler: "handler" when the
\* handler runs, else the middleware that answers
Chain(route, authHeader) ==
    LET a == AuthMiddleware(authHeader)
    IN  IF ~a.next THEN "AuthMiddleware"
        ELSE IF route \in ProtectedRoutes /\ ~RequireAuth(a.user) THEN "RequireAuth"
        ELSE "handler"

----------------------------------------------------------------------------
(* Requests *)

NoForm == [kind |-> "none", filename |-> <<>>, size |-> 0]

Request(route, auth, id, query, body, form) ==
    [route |-> route, auth |-> auth, id |-> id, query |-> query,
     body |-> body, form |-> form]

NoQuery == [k \in {} |-> <<>>]

NoReq == Request("", <<>>, "", NoQuery, NotJSON, NoForm)

NoResp ==
    [status |-> 0, ctype |-> "", headers |-> NoHeaders,
     body |-> [t |-> "none", v |-> <<>>]]

\* the tokens a client may present
Tokens == {<<"t">>, <<"x", "9">>}

BearerHeader(token) == Bearer \o <<" ">> \o token

\* Authorization header values, as net/http hands them over (no leading or
\* trailing blanks); the empty one stands for a request without the header
AuthHeaders ==
    {<<>>}
      \cup {BearerHeader(tok) : tok \in Tokens}
      \cup {Bearer,
            <<"t">>,
            <<"B", "a", "s", "i", "c", " ", "t">>,
            <<"b", "e", "a", "r", "e", "r", " ", "t">>,
            Bearer \o <<" ", " ", "t">>,
            Bearer \o <<" ", "a", " ", "b">>}

PathIds == {"", "id1"}

\* what Hub-HRMS may put in data
DataPayloads ==
    {JNull,
     JObj([jobs |-> JNull]),
     JObj([job |-> JObj([id |-> JStr("id1")])]),
     JObj([recruitmentMetrics |-> JObj([applicationTrend |-> JArr(<<>>)])])}
      \cup {JObj([jobs |-> JArr([i \in 1..n |-> JStr("job")])]) : n \in 0..MaxJobs}

\* what a GraphQL request to Hub-HRMS may come back with
UpstreamReplies ==
    {[transport |-> "error", status |-> 0, decodable |-> FALSE,
      data |-> JNull, errors |-> 0],
     [transport |-> "ok", status |-> 500, decodable |-> TRUE,
      data |-> JNull, errors |-> 0],
     [transport |-> "ok", status |-> 200, decodable |-> FALSE,
      data |-> JNull, errors |-> 0]}
      \cup {[transport |-> "ok", status |-> 200, decodable |-> TRUE,
             data |-> d, errors |-> e] : d \in DataPayloads, e \in 0..1}

----------------------------------------------------------------------------
(* The state after construction *)

(* The frontend's initial values *)

\* the JavaScript value undefined, beside the JSON values.  The texts of the
\* frontend are sequences of pieces, the empty text being <<>>.
undefined == [t |-> "undefined", v |-> <<>>]

\* the value the jobs store is created with
InitialJobsState ==
    [jobs |-> JArr(<<>>), loading |-> FALSE, error |-> JNull,
     filters |-> [department |-> "", type |-> "", location |-> "", search |-> ""]]

EmptyFormData ==
    [firstName |-> <<>>, lastName |-> <<>>, email |-> <<>>, phone |-> <<>>,
     resumeFile |-> JNull, coverLetter |-> <<>>, linkedinUrl |-> <<>>,
     portfolioUrl |-> <<>>]

\* the variables of a JobDetail component as its script block sets them,
\* with onMount and handleSubmit not yet called
JobDetail(id) ==
    [id |-> id, job |-> JNull, loading |-> TRUE, error |-> JNull,
     showApplicationForm |-> FALSE, submitting |-> FALSE, submitError |-> JNull,
     submitSuccess |-> FALSE, formData |-> EmptyFormData,
     resumeUploading |-> FALSE,
     onMount |-> "called", handleSubmit |-> "idle", url |-> undefined,
     sent |-> <<>>]

Init ==
    /\ sendGridKey \in SendGridKeys
    /\ pc = "idle"
    /\ req = NoReq
    /\ resp = NoResp
    /\ upstream = <<>>
    /\ storage = <<>>
    /\ started = <<>>
    /\ tasks = <<>>
    /\ held = NoResp
    /\ mail = <<>>
    /\ page = ""
    /\ jobsStore = InitialJobsState
    /\ fetches = <<>>
    /\ detail = [JobDetail("") EXCEPT !.onMount = "unmounted"]

\* the server takes a request while fewer than MaxTasks background tasks live
Accepting == pc = "idle" /\ Len(tasks) < MaxTasks

\* the Authorization headers with which a request reaches the route's handler
Passing(route) == {a \in AuthHeaders : Chain(route, a) = "handler"}

\* C19 mutant: a failed upstream call sent a second time
ServeRetrying(r, response, calls, puts) ==
    /\ pc' = "done"
    /\ req' = r
    /\ resp' = response
    /\ upstream' = IF Len(calls) = 1 /\ calls[1].reply.transport # "ok"
                   THEN calls \o calls ELSE calls
    /\ storage' = puts
    /\ started' = <<>>
    /\ held' = NoResp
    /\ mail' = <<>>
    /\ UNCHANGED <<browser, sendGridKey, tasks>>

\* a request served to its response in one step
Serve(r, response, calls, puts) ==
    /\ pc' = "done"
    /\ req' = r
    /\ resp' = response
    /\ upstream' = calls
    /\ storage' = puts
    /\ started' = <<>>
    /\ held' = NoResp
    /\ mail' = <<>>
    /\ UNCHANGED <<browser, sendGridKey, tasks>>

\* a request answered by the middleware: the handler does not run
Reject ==
    /\ Accepting
    /\ \E route \in Routes, auth \in AuthHeaders :
        /\ Chain(route, auth) # "handler"
        /\ pc' = "done"
        /\ req' = Request(route, auth, "", NoQuery, NotJSON, NoForm)
        /\ resp' = IF Chain(route, auth) = "AuthMiddleware"
                   THEN HttpError(<<"Invalid authorization header">>, 401)
                   ELSE HttpError(<<"Unauthorized">>, 401)
        /\ upstream' = <<>>
        /\ storage' = <<>>
        /\ started' = <<>>
        /\ held' = NoResp
        /\ mail' = <<>>
        /\ UNCHANGED <<browser, sendGridKey, tasks>>

\* the exchange is over; the server waits for the next request
Finish ==
    /\ pc = "done"
    /\ pc' = "idle"
    /\ req' = NoReq
    /\ resp' = NoResp
    /\ upstream' = <<>>
    /\ storage' = <<>>
    /\ started' = <<>>
    /\ mail' = <<>>
    /\ UNCHANGED <<browser, sendGridKey, tasks, held>>

----------------------------------------------------------------------------
(* The health handlers *)

\* C12 mutant: the health check that looks at the transport only
ClientHealthTransportOnly(reply) == reply.transport # "ok"

\* HubHRMSClient.Health: whether the minimal query fails
ClientHealth(reply) == Query(reply).err

\* the one request HubHRMSClient.Health sends: query { __typename }, no variables
HealthCall(reply) == Call("query { __typename }", <<>>, reply)

\* Health.  On failure WriteHeader(503) comes before the Content-Type is
\* set, so the header is the one net/http sniffs from the body.
HealthResponse(reply) ==
    IF ClientHealth(reply)
    THEN [status |-> 503, ctype |-> "text/plain; charset=utf-8",
          headers |-> NoHeaders,
          body |-> JObj([status    |-> JStr("degraded"),
                         timestamp |-> JStr("now"),
                         checks    |-> JObj([api           |-> JStr("healthy"),
                                             hubhrms       |-> JStr("unhealthy"),
                                             hubhrms_error |-> JStr("err.Error()")])])]
    ELSE [status |-> 200, ctype |-> "application/json", headers |-> NoHeaders,
          body |-> JObj([status    |-> JStr("healthy"),
                         timestamp |-> JStr("now"),
                         checks    |-> JObj([api     |-> JStr("healthy"),
                                             hubhrms |-> JStr("healthy")])])]

Health ==
    /\ Accepting
    /\ \E auth \in Passing("Health"), reply \in UpstreamReplies :
        Serve(Request("Health", auth, "", NoQuery, NotJSON, NoForm),
              HealthResponse(reply), <<HealthCall(reply)>>, <<>>)

Liveness ==
    /\ Accepting
    /\ \E auth \in Passing("Liveness") :
        Serve(Request("Liveness", auth, "", NoQuery, NotJSON, NoForm),
              respondJSON(200, JObj([status    |-> JStr("alive"),
                                     timestamp |-> JStr("now")])),
              <<>>, <<>>)

ReadinessResponse(reply) ==
    IF ClientHealth(reply)
    THEN respondJSON(503, JObj([status |-> JStr("not ready"),
                                reason |-> JStr("Hub-HRMS unreachable"),
                                error  |-> JStr("err.Error()")]))
    ELSE respondJSON(200, JObj([status    |-> JStr("ready"),
                                timestamp |-> JStr("now")]))

Readiness ==
    /\ Accepting
    /\ \E auth \in Passing("Readiness"), reply \in UpstreamReplies :
        Serve(Request("Readiness", auth, "", NoQuery, NotJSON, NoForm),
              ReadinessResponse(reply), <<HealthCall(reply)>>, <<>>)

----------------------------------------------------------------------------
(* The GraphQL proxy *)

\* the bodies a client may post to /graphql
ProxyBodies ==
    {NotJSON, JNull, JArr(<<>>), JStr("query"),
     JObj([query |-> JStr("{ jobs { id } }")]),
     JObj([query |-> JStr("{ jobs { id } }"), variables |-> JObj(EmptyMap)]),
     JObj([query |-> JNum(1)]),
     JObj([query |-> JStr("{ jobs { id } }"), variables |-> JArr(<<>>)]),
     JObj([other |-> JStr("x")])}

\* json.Unmarshal(body, &gqlReq) into GraphQLRequest{Query string, Variables
\* map, OperationName string}: whether it fails
UnmarshalGraphQLRequest(body) ==
    \/ body.t \notin {"object", "null"}
    \/ /\ body.t = "object"
       /\ \/ \E k \in {"query", "operationName"} \cap DOMAIN body.v :
                body.v[k].t \notin {"string", "null"}
          \/ /\ "variables" \in DOMAIN body.v
             /\ body.v["variables"].t \notin {"object", "null"}

\* what Hub-HRMS may answer to a proxied request: any status
ProxyReplies ==
    UpstreamReplies
      \cup {[transport |-> "ok", status |-> s, decodable |-> TRUE,
             data |-> JNull, errors |-> 1] : s \in {400, 404}}

\* the response that mirrors the upstream status and copies its body
Mirrored(reply) ==
    [status |-> reply.status, ctype |-> "application/json", headers |-> NoHeaders,
     body |-> [t |-> "copy", v |-> reply]]

ProxyHandler ==
    /\ Accepting
    /\ \E auth \in Passing("ProxyHandler"), body \in ProxyBodies :
        LET r == Request("ProxyHandler", auth, "", NoQuery, body, NoForm)
        IN  IF UnmarshalGraphQLRequest(body)
            THEN Serve(r, HttpError(<<"Invalid GraphQL request">>, 400), <<>>, <<>>)
            ELSE \E reply \in ProxyReplies :
                    LET calls == <<Call("POST", [body |-> body, userToken |-> auth],
                                        reply)>>
                    IN  IF reply.transport # "ok"
                        THEN Serve(r, HttpError(<<"Failed to execute request">>, 502),
                                   calls, <<>>)
                        ELSE Serve(r, Mirrored(reply), calls, <<>>)

----------------------------------------------------------------------------
(* Pagination and filters of the list handlers *)

DefaultLimit == 20
DefaultOffset == 0
MaxLimit == 100

PUBLISHED == <<"P", "U", "B", "L", "I", "S", "H", "E", "D">>

\* strconv.ParseBool
ParseBool(s) ==
    IF s \in {<<"1">>, <<"t">>, <<"T">>, <<"T", "R", "U", "E">>,
              <<"t", "r", "u", "e">>, <<"T", "r", "u", "e">>}
    THEN [err |-> FALSE, b |-> TRUE]
    ELSE IF s \in {<<"0">>, <<"f">>, <<"F">>, <<"F", "A", "L", "S", "E">>,
                   <<"f", "a", "l", "s", "e">>, <<"F", "a", "l", "s", "e">>}
    THEN [err |-> FALSE, b |-> FALSE]
    ELSE [err |-> TRUE, b |-> FALSE]

\* C2 mutant: the status filter left out when the parameter is empty
JobFiltersNoDefault(q) ==
    LET kept == {k \in {"status", "q"} : Get(q, k) # <<>>}
    IN  [k \in kept |-> Get(q, k)]

\* ListJobs: the filters built from the query string
JobFilters(q) ==
    LET status == Get(q, "status")
        all == [query            |-> Get(q, "q"),
                departments      |-> <<Get(q, "department")>>,
                locations        |-> <<Get(q, "location")>>,
                employmentTypes  |-> <<Get(q, "employmentType")>>,
                experienceLevels |-> <<Get(q, "experienceLevel")>>,
                remoteWork       |-> ParseBool(Get(q, "remote")).b,
                status           |-> IF status # <<>> THEN status ELSE PUBLISHED]
        kept == {"status"}
                  \cup (IF Get(q, "q") # <<>> THEN {"query"} ELSE {})
                  \cup (IF Get(q, "department") # <<>> THEN {"departments"} ELSE {})
                  \cup (IF Get(q, "location") # <<>> THEN {"locations"} ELSE {})
                  \cup (IF Get(q, "employmentType") # <<>>
                        THEN {"employmentTypes"} ELSE {})
                  \cup (IF Get(q, "experienceLevel") # <<>>
                        THEN {"experienceLevels"} ELSE {})
                  \cup (IF Get(q, "remote") # <<>> THEN {"remoteWork"} ELSE {})
    IN  [k \in kept |-> all[k]]

\* C1 mutant: the limit without its upper bound
JobsLimitUncapped(limitStr) ==
    IF limitStr # <<>>
    THEN LET l == Atoi(limitStr)
         IN  IF ~l.err /\ l.n > 0 THEN l.n ELSE DefaultLimit
    ELSE DefaultLimit

\* ListJobs: limit and offset from the query string
JobsLimit(limitStr) ==
    IF limitStr # <<>>
    THEN LET l == Atoi(limitStr)
         IN  IF ~l.err /\ l.n > 0 /\ l.n <= MaxLimit THEN l.n ELSE DefaultLimit
    ELSE DefaultLimit

JobsOffset(offsetStr) ==
    IF offsetStr # <<>>
    THEN LET o == Atoi(offsetStr)
         IN  IF ~o.err /\ o.n >= 0 THEN o.n ELSE DefaultOffset
    ELSE DefaultOffset

\* the variables map of a list query
ListVariables(limit, offset, filters) ==
    IF DOMAIN filters # {}
    THEN [k \in {"limit", "offset", "filters"} |->
            IF k = "limit" THEN limit ELSE IF k = "offset" THEN offset ELSE filters]
    ELSE [k \in {"limit", "offset"} |-> IF k = "limit" THEN limit ELSE offset]

JobsVariables(q) ==
    ListVariables(JobsLimit(Get(q, "limit")), JobsOffset(Get(q, "offset")),
                  JobFilters(q))

\* strconv.ParseFloat on the decimal integer texts, the only numeric texts
\* the model sends: the grammar and value of Atoi
ParseFloat(s) == Atoi(s)

\* ListApplications: the filters built from the query string
ApplicationFilters(q) ==
    LET minScore == ParseFloat(Get(q, "minScore"))
        all == [jobId    |-> Get(q, "jobId"),
                status   |-> Get(q, "status"),
                dateFrom |-> Get(q, "dateFrom"),
                dateTo   |-> Get(q, "dateTo"),
                minScore |-> minScore.n]
        kept == {k \in {"jobId", "status", "dateFrom", "dateTo"} : Get(q, k) # <<>>}
                  \cup (IF Get(q, "minScore") # <<>> /\ ~minScore.err
                        THEN {"minScore"} ELSE {})
    IN  [k \in kept |-> all[k]]

\* ListApplications: limit and offset from the query string
ApplicationsLimit(limitStr) ==
    IF limitStr # <<>>
    THEN LET l == Atoi(limitStr)
         IN  IF ~l.err /\ l.n > 0 /\ l.n <= MaxLimit THEN l.n ELSE DefaultLimit
    ELSE DefaultLimit

ApplicationsOffset(offsetStr) ==
    IF offsetStr # <<>>
    THEN LET o == Atoi(offsetStr)
         IN  IF ~o.err /\ o.n >= 0 THEN o.n ELSE DefaultOffset
    ELSE DefaultOffset

ApplicationsVariables(q) ==
    ListVariables(ApplicationsLimit(Get(q, "limit")),
                  ApplicationsOffset(Get(q, "offset")), ApplicationFilters(q))

(* The query strings the model sends *)

\* marks a key the query string does not hold
Absent == <<"(absent)">>

DRAFT == <<"D", "R", "A", "F", "T">>

\* the texts a client may write for the integer n
IntTexts(n) ==
    {Itoa(n)} \cup (IF n >= 0 THEN {<<"+">> \o Itoa(n), <<"0">> \o Itoa(n)} ELSE {})

NotIntTexts == {<<"a", "b", "c">>, <<"1", "x">>, <<"-">>, <<"1", ".", "5">>}

LimitInts == ((0 - MaxOver)..MaxOver) \cup ((MaxLimit - MaxOver)..(MaxLimit + MaxOver))

OffsetInts == ((0 - MaxOver)..MaxOver) \cup {MaxLimit + MaxOver}

LimitTexts ==
    {Absent, <<>>, <<"+", "7">>, <<"0", "7">>}
      \cup {Itoa(n) : n \in LimitInts} \cup NotIntTexts

OffsetTexts ==
    {Absent, <<>>, <<"+", "7">>}
      \cup {Itoa(n) : n \in OffsetInts} \cup NotIntTexts

StatusTexts == {Absent, <<>>, DRAFT}

Paged(l, o) == Present([limit |-> l, offset |-> o], Absent)

JobsQueries ==
    {Paged(l, o) : l \in LimitTexts, o \in OffsetTexts}
      \cup {Present([status |-> s, limit |-> l], Absent) :
              s \in StatusTexts, l \in {Absent, <<"5">>}}
      \cup {Present([q |-> <<"g", "o">>, department |-> <<"e", "n", "g">>,
                     location |-> <<"n", "y">>, employmentType |-> <<"f", "t">>,
                     experienceLevel |-> <<"s", "r">>, remote |-> r,
                     type |-> <<"f", "t">>], Absent) :
              r \in {Absent, <<"t", "r", "u", "e">>, <<"n", "o">>}}
      \cup {Present([type |-> <<"p", "t">>], Absent),
            Present([sort |-> <<"a", "s", "c">>], Absent)}

ApplicationsQueries ==
    {Paged(l, o) : l \in LimitTexts, o \in OffsetTexts}
      \cup {Present([jobId |-> <<"j", "1">>, status |-> s], Absent) :
              s \in StatusTexts}
      \cup {Present([dateFrom |-> <<"2", "0", "2", "6">>, dateTo |-> <<"2", "0", "2", "7">>,
                     minScore |-> m], Absent) :
              m \in {Absent, <<"7", "5">>, <<"h", "i">>}}

----------------------------------------------------------------------------
(* The job handlers *)

\* what len(resp.Data.(map)["jobs"].([]interface{})) needs: an object whose
\* jobs member is a list; anything else panics
HasJobsList(data) ==
    /\ data.t = "object"
    /\ "jobs" \in DOMAIN data.v
    /\ data.v["jobs"].t = "array"

ListJobsResponse(reply) ==
    LET r == Query(reply)
    IN  IF r.err THEN respondError(500, <<"Failed to fetch jobs">>, TRUE)
        ELSE IF ~HasJobsList(r.data) THEN Recovered
        ELSE [respondJSON(200, r.data) EXCEPT
                !.headers = [k \in {"X-Total-Count"} |->
                               Itoa(Len(r.data.v["jobs"].v))]]

ListJobs ==
    /\ Accepting
    /\ \E auth \in Passing("ListJobs"), q \in JobsQueries, reply \in UpstreamReplies :
        Serve(Request("ListJobs", auth, "", q, NotJSON, NoForm),
              ListJobsResponse(reply),
              <<Call("GetJobsQuery", JobsVariables(q), reply)>>,
              <<>>)

\* C4 mutant: the last missing field instead of the first
LastMissing(required, m) ==
    LET missing == {i \in 1..Len(required) : required[i] \notin DOMAIN m}
    IN  IF missing = {} THEN 0
        ELSE CHOOSE i \in missing : \A j \in missing : i >= j

\* the index of the first field of required that the map lacks, 0 when none
FirstMissing(required, m) ==
    LET missing == {i \in 1..Len(required) : required[i] \notin DOMAIN m}
    IN  IF missing = {} THEN 0
        ELSE CHOOSE i \in missing : \A j \in missing : i <= j

\* C3 mutant: the by-id read without its null check
GetJobResponseNoNil(reply) ==
    LET r == Query(reply)
    IN  IF r.err THEN respondError(500, <<"Failed to fetch job">>, TRUE)
        ELSE respondJSON(200, r.data)

\* the answer of a by-id read: 500 on a failed call, 404 on null data
GetJobResponse(reply) ==
    LET r == Query(reply)
    IN  IF r.err THEN respondError(500, <<"Failed to fetch job">>, TRUE)
        ELSE IF IsNullData(r.data) THEN respondError(404, <<"Job not found">>, FALSE)
        ELSE respondJSON(200, r.data)

GetJob ==
    /\ Accepting
    /\ \E auth \in Passing("GetJob"), id \in PathIds :
        LET r == Request("GetJob", auth, id, NoQuery, NotJSON, NoForm)
        IN  IF id = ""
            THEN Serve(r, respondError(400, <<"Job ID is required">>, FALSE),
                       <<>>, <<>>)
            ELSE \E reply \in UpstreamReplies :
                    Serve(r, GetJobResponse(reply),
                          <<Call("GetJobQuery", [id |-> id], reply)>>, <<>>)

CreateJobRequired ==
    <<"title", "department", "location", "employmentType", "experienceLevel",
      "description", "requirements", "skills">>

\* a relayed mutation: 500 on a failed call, else the status with the data
MutationResponse(reply, failure, status) ==
    LET r == Mutate(reply)
    IN  IF r.err THEN respondError(500, <<failure>>, TRUE)
        ELSE respondJSON(status, r.data)

\* an object holding the given keys
BodyWith(keys) == JObj([k \in keys |-> JStr("x")])

Keys(required) == {required[i] : i \in 1..Len(required)}

CreateJobBodies ==
    {NotJSON, JNull, BodyWith(Keys(CreateJobRequired) \cup {"salary"})}
      \cup {BodyWith(ks) : ks \in SUBSET Keys(CreateJobRequired)}

CreateJob ==
    /\ Accepting
    /\ \E auth \in Passing("CreateJob"), body \in CreateJobBodies :
        LET r == Request("CreateJob", auth, "", NoQuery, body, NoForm)
            input == DecodeMap(body)
            miss == FirstMissing(CreateJobRequired, input.m)
        IN  IF input.err
            THEN Serve(r, respondError(400, <<"Invalid request body">>, TRUE),
                       <<>>, <<>>)
            ELSE IF miss # 0
            THEN Serve(r, respondError(400, <<"Missing required field: ",
                                               CreateJobRequired[miss]>>, FALSE),
                       <<>>, <<>>)
            ELSE \E reply \in UpstreamReplies :
                    Serve(r, MutationResponse(reply, "Failed to create job", 201),
                          <<Call("CreateJobMutation", [input |-> input.m], reply)>>,
                          <<>>)

\* the bodies sent to the handlers that relay the body as it is
RelayBodies == {NotJSON, JNull, BodyWith({}), BodyWith({"title"})}

UpdateJob ==
    /\ Accepting
    /\ \E auth \in Passing("UpdateJob"), id \in PathIds, body \in RelayBodies :
        LET r == Request("UpdateJob", auth, id, NoQuery, body, NoForm)
            input == DecodeMap(body)
        IN  IF id = ""
            THEN Serve(r, respondError(400, <<"Job ID is required">>, FALSE),
                       <<>>, <<>>)
            ELSE IF input.err
            THEN Serve(r, respondError(400, <<"Invalid request body">>, TRUE),
                       <<>>, <<>>)
            ELSE \E reply \in UpstreamReplies :
                    Serve(r, MutationResponse(reply, "Failed to update job", 200),
                          <<Call("UpdateJobMutation",
                                 [id |-> id, input |-> input.m], reply)>>,
                          <<>>)

\* a mutation on the job named in the path, relayed with the id alone
JobMutation(route, op, failure) ==
    /\ Accepting
    /\ \E auth \in Passing(route), id \in PathIds :
        LET r == Request(route, auth, id, NoQuery, NotJSON, NoForm)
        IN  IF id = ""
            THEN Serve(r, respondError(400, <<"Job ID is required">>, FALSE),
                       <<>>, <<>>)
            ELSE \E reply \in UpstreamReplies :
                    Serve(r, MutationResponse(reply, failure, 200),
                          <<Call(op, [id |-> id], reply)>>, <<>>)

PublishJob == JobMutation("PublishJob", "PublishJobMutation", "Failed to publish job")

CloseJob == JobMutation("CloseJob", "CloseJobMutation", "Failed to close job")

DeleteJobResponse(reply) ==
    LET r == Mutate(reply)
    IN  IF r.err THEN respondError(500, <<"Failed to delete job">>, TRUE)
        ELSE respondJSON(200, JObj([success |-> JBool(TRUE),
                                    message |-> JStr(<<"Job deleted successfully">>),
                                    data    |-> r.data]))

DeleteJob ==
    /\ Accepting
    /\ \E auth \in Passing("DeleteJob"), id \in PathIds :
        LET r == Request("DeleteJob", auth, id, NoQuery, NotJSON, NoForm)
        IN  IF id = ""
            THEN Serve(r, respondError(400, <<"Job ID is required">>, FALSE),
                       <<>>, <<>>)
            ELSE \E reply \in UpstreamReplies :
                    Serve(r, DeleteJobResponse(reply),
                          <<Call("DeleteJobMutation", [id |-> id], reply)>>, <<>>)

\* C5 mutant: the failed call answered like that of every other mutation
IncrementViewResponseStrict(reply) ==
    LET r == Mutate(reply)
    IN  IF r.err THEN respondError(500, <<"View count update failed">>, TRUE)
        ELSE respondJSON(200, r.data)

\* IncrementView: a failed call is answered 200 with success false
IncrementViewResponse(reply) ==
    LET r == Mutate(reply)
    IN  IF r.err
        THEN respondJSON(200, JObj([success |-> JBool(FALSE),
                                    message |-> JStr(<<"View count update failed">>)]))
        ELSE respondJSON(200, r.data)

IncrementView ==
    /\ Accepting
    /\ \E auth \in Passing("IncrementView"), id \in PathIds :
        LET r == Request("IncrementView", auth, id, NoQuery, NotJSON, NoForm)
        IN  IF id = ""
            THEN Serve(r, respondError(400, <<"Job ID is required">>, FALSE),
                       <<>>, <<>>)
            ELSE \E reply \in UpstreamReplies :
                    Serve(r, IncrementViewResponse(reply),
                          <<Call("IncrementJobViewMutation", [id |-> id], reply)>>,
                          <<>>)

GenerateDescriptionRequired == <<"title", "department", "experienceLevel", "keySkills">>

GenerateDescriptionBodies ==
    {NotJSON, JNull} \cup {BodyWith(ks) : ks \in SUBSET Keys(GenerateDescriptionRequired)}

GenerateDescription ==
    /\ Accepting
    /\ \E auth \in Passing("GenerateDescription"), body \in GenerateDescriptionBodies :
        LET r == Request("GenerateDescription", auth, "", NoQuery, body, NoForm)
            input == DecodeMap(body)
            miss == FirstMissing(GenerateDescriptionRequired, input.m)
        IN  IF input.err
            THEN Serve(r, respondError(400, <<"Invalid request body">>, TRUE),
                       <<>>, <<>>)
            ELSE IF miss # 0
            THEN Serve(r, respondError(400, <<"Missing required field: ",
                                               GenerateDescriptionRequired[miss]>>,
                                       FALSE),
                       <<>>, <<>>)
            ELSE \E reply \in UpstreamReplies :
                    Serve(r, MutationResponse(reply,
                                              "Failed to generate job description", 200),
                          <<Call("GenerateJobDescriptionMutation",
                                 [input |-> input.m], reply)>>,
                          <<>>)

----------------------------------------------------------------------------
(* The application handlers *)

ListApplicationsResponse(reply) ==
    LET r == Query(reply)
    IN  IF r.err THEN respondError(500, <<"Failed to fetch applications">>, TRUE)
        ELSE respondJSON(200, r.data)

ListApplications ==
    /\ Accepting
    /\ \E auth \in Passing("ListApplications"), q \in ApplicationsQueries,
          reply \in UpstreamReplies :
        Serve(Request("ListApplications", auth, "", q, NotJSON, NoForm),
              ListApplicationsResponse(reply),
              <<Call("GetApplicationsQuery", ApplicationsVariables(q), reply)>>,
              <<>>)

(* Background email tasks *)

\* what the email provider may answer to a send
ProviderReplies ==
    {[transport |-> "error", status |-> 0]}
      \cup {[transport |-> "ok", status |-> c] : c \in {202, 302, 400, 500}}

\* EmailService.sendEmail: whether it returns an error
sendEmail(key, reply) ==
    IF key = "" THEN TRUE
    ELSE IF reply.transport # "ok" THEN TRUE
    ELSE reply.status >= 400

Task(fn, args) == [fn |-> fn, args |-> args]

Without(seq, i) == SubSeq(seq, 1, i - 1) \o SubSeq(seq, i + 1, Len(seq))

\* the provider reply of a send that posted nothing
NoReply == [transport |-> "none", status |-> 0]

\* C16 mutant: a send without its check of the key
SendUnguarded(key, reply) ==
    [posted |-> key # "", err |-> sendEmail(key, reply)]

\* what SendApplicationConfirmation, SendInterviewInvitation, SendOfferLetter
\* and SendRejection do after formatting their message: without a key they
\* return nil at once, with one they return what sendEmail returns.  posted
\* says whether a request went to the provider, err whether an error is
\* returned.
Send(key, reply) ==
    IF key = "" THEN [posted |-> FALSE, err |-> FALSE]
    ELSE [posted |-> TRUE, err |-> sendEmail(key, reply)]

\* one finished send, as the mail log keeps it
Sent(fn, to, reply, result) ==
    [fn |-> fn, to |-> to,
     reply |-> IF result.posted THEN reply ELSE NoReply,
     posted |-> result.posted, err |-> result.err]

\* the goroutine running EmailService.SendApplicationConfirmation.  The
\* result is returned to nobody.
SendApplicationConfirmation ==
    \E i \in 1..Len(tasks) :
        /\ tasks[i].fn = "SendApplicationConfirmation"
        /\ tasks' = Without(tasks, i)
        /\ \E reply \in (IF sendGridKey = "" THEN {NoReply} ELSE ProviderReplies) :
              mail' = Append(mail, Sent("SendApplicationConfirmation",
                                        tasks[i].args[1], reply,
                                        Send(sendGridKey, reply)))
        /\ UNCHANGED <<browser, sendGridKey, pc, req, resp, upstream, storage, started, held>>

\* the goroutine running EmailService.SendStatusUpdate: with or without a
\* key it only logs and returns nil
SendStatusUpdate ==
    \E i \in 1..Len(tasks) :
        /\ tasks[i].fn = "SendStatusUpdate"
        /\ tasks' = Without(tasks, i)
        /\ mail' = Append(mail, Sent("SendStatusUpdate", tasks[i].args[1], NoReply,
                                     [posted |-> FALSE, err |-> FALSE]))
        /\ UNCHANGED <<browser, sendGridKey, pc, req, resp, upstream, storage, started, held>>

\* a send of the service called directly and run to its return: no handler
\* calls these three
DirectSend(fn) ==
    /\ Accepting
    /\ \E reply \in (IF sendGridKey = "" THEN {NoReply} ELSE ProviderReplies) :
          mail' = <<Sent(fn, "ann@example.com", reply, Send(sendGridKey, reply))>>
    /\ pc' = "done"
    /\ UNCHANGED <<browser, sendGridKey, req, resp, upstream, storage, started, tasks, held>>

SendInterviewInvitation == DirectSend("SendInterviewInvitation")

SendOfferLetter == DirectSend("SendOfferLetter")

SendRejection == DirectSend("SendRejection")

\* a handler that has started its background task: the task is alive and
\* the response is still to be written
Go(r, task, response, calls) ==
    /\ pc' = "respond"
    /\ req' = r
    /\ resp' = NoResp
    /\ upstream' = calls
    /\ storage' = <<>>
    /\ started' = <<task>>
    /\ tasks' = Append(tasks, task)
    /\ held' = response
    /\ mail' = <<>>
    /\ UNCHANGED <<browser, sendGridKey>>

\* C7 mutant: the response written only once the task has ended
RespondAfterJoin ==
    /\ pc = "respond"
    /\ \A i \in 1..Len(tasks) : tasks[i] # started[1]
    /\ pc' = "done"
    /\ resp' = held
    /\ held' = NoResp
    /\ UNCHANGED <<browser, sendGridKey, req, upstream, storage, started, tasks, mail>>

\* the respondJSON that ends SubmitApplication and UpdateStatus
RespondAfterGo ==
    /\ pc = "respond"
    /\ pc' = "done"
    /\ resp' = held
    /\ held' = NoResp
    /\ UNCHANGED <<browser, sendGridKey, req, upstream, storage, started, tasks, mail>>

(* SubmitApplication *)

SubmitRequired ==
    <<"jobId", "firstName", "lastName", "email", "phone", "resumeUrl",
      "currentLocation", "availability">>

NotGiven == [t |-> "absent", v |-> <<>>]

\* the object with the members of f that are given
Members(f) == JObj([k \in {j \in DOMAIN f : f[j].t # "absent"} |-> f[k]])

\* the values a member the handler reads as a string may have
Typed(s) == {NotGiven, JStr(s), JNum(1)}

Given(s) == {NotGiven, JStr(s)}

SubmitBodies ==
    {NotJSON, JNull}
      \cup {Members([jobId |-> j, firstName |-> f, lastName |-> l, email |-> e,
                     phone |-> p, resumeUrl |-> u, currentLocation |-> c,
                     availability |-> a, willingToRelocate |-> w]) :
              j \in Typed("job-7"), f \in Typed("Ann"), e \in Typed("ann@example.com"),
              l \in Given("Lee"), p \in Given("555"), u \in Given("https://cv"),
              c \in Given("NYC"), a \in Given("now"),
              w \in {NotGiven, JBool(TRUE)}}

\* the input with willingToRelocate defaulted
SubmitInput(m) ==
    IF "willingToRelocate" \in DOMAIN m THEN m
    ELSE MapSet(m, "willingToRelocate", JBool(FALSE))

\* input[k].(string): whether the assertion holds
IsString(m, k) == k \in DOMAIN m /\ m[k].t = "string"

\* C6 mutant: the confirmation send with its first two arguments exchanged
ConfirmationTaskSwapped(input) ==
    Task("SendApplicationConfirmation",
         <<input["firstName"].v, input["email"].v, input["jobId"].v>>)

\* the confirmation send SubmitApplication starts
ConfirmationTask(input) ==
    Task("SendApplicationConfirmation",
         <<input["email"].v, input["firstName"].v, input["jobId"].v>>)

SubmitApplication ==
    /\ Accepting
    /\ \E auth \in Passing("SubmitApplication"), body \in SubmitBodies :
        LET r == Request("SubmitApplication", auth, "", NoQuery, body, NoForm)
            decoded == DecodeMap(body)
            miss == FirstMissing(SubmitRequired, decoded.m)
            input == SubmitInput(decoded.m)
        IN  IF decoded.err
            THEN Serve(r, respondError(400, <<"Invalid request body">>, TRUE),
                       <<>>, <<>>)
            ELSE IF miss # 0
            THEN Serve(r, respondError(400, <<"Missing required field: ",
                                               SubmitRequired[miss]>>, FALSE),
                       <<>>, <<>>)
            ELSE \E reply \in UpstreamReplies :
                    LET calls == <<Call("SubmitApplicationMutation",
                                        [input |-> input], reply)>>
                        m == Mutate(reply)
                    IN  IF m.err
                        THEN Serve(r, respondError(500,
                                       <<"Failed to submit application">>, TRUE),
                                   calls, <<>>)
                        ELSE IF ~(IsString(input, "email")
                                    /\ IsString(input, "firstName")
                                    /\ IsString(input, "jobId"))
                        THEN Serve(r, Recovered, calls, <<>>)
                        ELSE Go(r, ConfirmationTask(input),
                                respondJSON(201, m.data), calls)

(* The other application handlers *)

GetApplicationResponse(reply) ==
    LET r == Query(reply)
    IN  IF r.err THEN respondError(500, <<"Failed to fetch application">>, TRUE)
        ELSE IF IsNullData(r.data)
        THEN respondError(404, <<"Application not found">>, FALSE)
        ELSE respondJSON(200, r.data)

GetApplication ==
    /\ Accepting
    /\ \E auth \in Passing("GetApplication"), id \in PathIds :
        LET r == Request("GetApplication", auth, id, NoQuery, NotJSON, NoForm)
        IN  IF id = ""
            THEN Serve(r, respondError(400, <<"Application ID is required">>, FALSE),
                       <<>>, <<>>)
            ELSE \E reply \in UpstreamReplies :
                    Serve(r, GetApplicationResponse(reply),
                          <<Call("GetApplicationQuery", [id |-> id], reply)>>, <<>>)

\* json.Decoder.Decode into a struct of string fields: a missing or null
\* member leaves the field empty, a member of another type is an error
DecodeStrings(body, fields) ==
    LET m == IF body.t = "object" THEN body.v ELSE EmptyMap
        bad == \E k \in fields : k \in DOMAIN m /\ m[k].t \notin {"string", "null"}
    IN  [err |-> body.t \notin {"object", "null"} \/ bad,
         m   |-> [k \in fields |->
                    IF k \in DOMAIN m /\ m[k].t = "string" THEN m[k].v ELSE ""]]

UpdateStatusBodies ==
    {NotJSON, JNull, JObj(EmptyMap),
     JObj([status |-> JStr("")]),
     JObj([status |-> JNum(1)]),
     JObj([status |-> JStr("REVIEWING")]),
     JObj([status |-> JStr("REJECTED"), note |-> JStr("n")])}

UpdateStatusVariables(id, input) ==
    IF input["note"] # ""
    THEN [id |-> id, status |-> input["status"], note |-> input["note"]]
    ELSE [id |-> id, status |-> input["status"]]

UpdateStatus ==
    /\ Accepting
    /\ \E auth \in Passing("UpdateStatus"), id \in PathIds, body \in UpdateStatusBodies :
        LET r == Request("UpdateStatus", auth, id, NoQuery, body, NoForm)
            input == DecodeStrings(body, {"status", "note"})
        IN  IF id = ""
            THEN Serve(r, respondError(400, <<"Application ID is required">>, FALSE),
                       <<>>, <<>>)
            ELSE IF input.err
            THEN Serve(r, respondError(400, <<"Invalid request body">>, TRUE),
                       <<>>, <<>>)
            ELSE IF input.m["status"] = ""
            THEN Serve(r, respondError(400, <<"Status is required">>, FALSE),
                       <<>>, <<>>)
            ELSE \E reply \in UpstreamReplies :
                    LET calls == <<Call("UpdateApplicationStatusMutation",
                                        UpdateStatusVariables(id, input.m), reply)>>
                        m == Mutate(reply)
                    IN  IF m.err
                        THEN Serve(r, respondError(500,
                                       <<"Failed to update application status">>, TRUE),
                                   calls, <<>>)
                        ELSE Go(r, Task("SendStatusUpdate", <<id, input.m["status"]>>),
                                respondJSON(200, m.data), calls)

\* BulkUpdateStatus decodes {ids []string, status string}
BulkBodies ==
    {NotJSON, JNull,
     JObj([status |-> JStr("REVIEWING")]),
     JObj([ids |-> JArr(<<>>), status |-> JStr("REVIEWING")]),
     JObj([ids |-> JArr(<<JStr("a1")>>)]),
     JObj([ids |-> JStr("a1"), status |-> JStr("REVIEWING")]),
     JObj([ids |-> JArr(<<JStr("a1"), JStr("a2")>>), status |-> JStr("REVIEWING")])}

DecodeBulk(body) ==
    LET s == DecodeStrings(body, {"status"})
        m == IF body.t = "object" THEN body.v ELSE EmptyMap
        given == "ids" \in DOMAIN m
    IN  [err    |-> s.err \/ (given /\ m["ids"].t \notin {"array", "null"}),
         ids    |-> IF given /\ m["ids"].t = "array"
                    THEN [i \in 1..Len(m["ids"].v) |-> m["ids"].v[i].v] ELSE <<>>,
         status |-> s.m["status"]]

BulkUpdateStatus ==
    /\ Accepting
    /\ \E auth \in Passing("BulkUpdateStatus"), body \in BulkBodies :
        LET r == Request("BulkUpdateStatus", auth, "", NoQuery, body, NoForm)
            input == DecodeBulk(body)
        IN  IF input.err
            THEN Serve(r, respondError(400, <<"Invalid request body">>, TRUE),
                       <<>>, <<>>)
            ELSE IF Len(input.ids) = 0
            THEN Serve(r, respondError(400, <<"Application IDs are required">>, FALSE),
                       <<>>, <<>>)
            ELSE IF input.status = ""
            THEN Serve(r, respondError(400, <<"Status is required">>, FALSE),
                       <<>>, <<>>)
            ELSE \E reply \in UpstreamReplies :
                    Serve(r, MutationResponse(reply,
                                 "Failed to update application statuses", 200),
                          <<Call("BulkUpdateApplicationStatusMutation",
                                 [ids |-> input.ids, status |-> input.status],
                                 reply)>>,
                          <<>>)

\* AddNote decodes {content string, isInternal bool}
NoteBodies ==
    {NotJSON, JNull,
     JObj([isInternal |-> JBool(TRUE)]),
     JObj([content |-> JStr("hi")]),
     JObj([content |-> JStr("hi"), isInternal |-> JBool(TRUE)]),
     JObj([content |-> JStr("hi"), isInternal |-> JStr("yes")])}

DecodeNote(body) ==
    LET s == DecodeStrings(body, {"content"})
        m == IF body.t = "object" THEN body.v ELSE EmptyMap
        given == "isInternal" \in DOMAIN m
    IN  [err        |-> s.err \/ (given /\ m["isInternal"].t \notin {"bool", "null"}),
         content    |-> s.m["content"],
         isInternal |-> IF given /\ m["isInternal"].t = "bool"
                        THEN m["isInternal"].v ELSE FALSE]

AddNote ==
    /\ Accepting
    /\ \E auth \in Passing("AddNote"), id \in PathIds, body \in NoteBodies :
        LET r == Request("AddNote", auth, id, NoQuery, body, NoForm)
            input == DecodeNote(body)
        IN  IF id = ""
            THEN Serve(r, respondError(400, <<"Application ID is required">>, FALSE),
                       <<>>, <<>>)
            ELSE IF input.err
            THEN Serve(r, respondError(400, <<"Invalid request body">>, TRUE),
                       <<>>, <<>>)
            ELSE IF input.content = ""
            THEN Serve(r, respondError(400, <<"Note content is required">>, FALSE),
                       <<>>, <<>>)
            ELSE \E reply \in UpstreamReplies :
                    Serve(r, MutationResponse(reply, "Failed to add note", 201),
                          <<Call("AddApplicationNoteMutation",
                                 [applicationId |-> id, content |-> input.content,
                                  isInternal |-> input.isInternal], reply)>>,
                          <<>>)

ScoreApplication ==
    /\ Accepting
    /\ \E auth \in Passing("ScoreApplication"), id \in PathIds :
        LET r == Request("ScoreApplication", auth, id, NoQuery, NotJSON, NoForm)
        IN  IF id = ""
            THEN Serve(r, respondError(400, <<"Application ID is required">>, FALSE),
                       <<>>, <<>>)
            ELSE \E reply \in UpstreamReplies :
                    Serve(r, MutationResponse(reply, "Failed to score application", 200),
                          <<Call("ScoreApplicationMutation",
                                 [applicationId |-> id], reply)>>,
                          <<>>)

GetCandidateResponse(reply) ==
    LET r == Query(reply)
    IN  IF r.err THEN respondError(500, <<"Failed to fetch candidate">>, TRUE)
        ELSE IF IsNullData(r.data)
        THEN respondError(404, <<"Candidate not found">>, FALSE)
        ELSE respondJSON(200, r.data)

GetCandidate ==
    /\ Accepting
    /\ \E auth \in Passing("GetCandidate"), id \in PathIds :
        LET r == Request("GetCandidate", auth, id, NoQuery, NotJSON, NoForm)
        IN  IF id = ""
            THEN Serve(r, respondError(400, <<"Candidate ID is required">>, FALSE),
                       <<>>, <<>>)
            ELSE \E reply \in UpstreamReplies :
                    Serve(r, GetCandidateResponse(reply),
                          <<Call("GetCandidateQuery", [id |-> id], reply)>>, <<>>)

UpdateCandidate ==
    /\ Accepting
    /\ \E auth \in Passing("UpdateCandidate"), id \in PathIds, body \in RelayBodies :
        LET r == Request("UpdateCandidate", auth, id, NoQuery, body, NoForm)
            input == DecodeMap(body)
        IN  IF id = ""
            THEN Serve(r, respondError(400, <<"Candidate ID is required">>, FALSE),
                       <<>>, <<>>)
            ELSE IF input.err
            THEN Serve(r, respondError(400, <<"Invalid request body">>, TRUE),
                       <<>>, <<>>)
            ELSE \E reply \in UpstreamReplies :
                    Serve(r, MutationResponse(reply, "Failed to update candidate", 200),
                          <<Call("UpdateCandidateProfileMutation",
                                 [id |-> id, input |-> input.m], reply)>>,
                          <<>>)

----------------------------------------------------------------------------
(* The analytics handlers *)

\* the number of days from 1970-01-01 to the civil date; a day past the end
\* of the month counts on into the next, as time.Date normalises it
DaysFromCivil(y, m, d) ==
    LET yy  == IF m <= 2 THEN y - 1 ELSE y
        era == yy \div 400
        yoe == yy - era * 400
        mp  == IF m > 2 THEN m - 3 ELSE m + 9
        doy == (153 * mp + 2) \div 5 + d - 1
        doe == yoe * 365 + yoe \div 4 - yoe \div 100 + doy
    IN  era * 146097 + doe - 719468

IsLeap(y) == y % 4 = 0 /\ (y % 100 # 0 \/ y % 400 = 0)

DaysIn(y, m) ==
    IF m = 2 THEN (IF IsLeap(y) THEN 29 ELSE 28)
    ELSE IF m \in {4, 6, 9, 11} THEN 30 ELSE 31

\* an instant: the day and the time within the day, in half days
Instant(day, half) == day * 2 + half

\* time.Parse("2006-01-02", s): the instant at midnight of the date
ParseDate(s) ==
    LET shaped == /\ Len(s) = 10
                  /\ s[5] = "-" /\ s[8] = "-"
                  /\ \A i \in {1, 2, 3, 4, 6, 7, 9, 10} : IsDigit(s[i])
        y == DigitsValue(SubSeq(s, 1, 4), 0).n
        m == DigitsValue(SubSeq(s, 6, 7), 0).n
        d == DigitsValue(SubSeq(s, 9, 10), 0).n
    IN  IF ~shaped THEN [err |-> TRUE, t |-> 0]
        ELSE IF m < 1 \/ m > 12 \/ d < 1 \/ d > DaysIn(y, m)
        THEN [err |-> TRUE, t |-> 0]
        ELSE [err |-> FALSE, t |-> Instant(DaysFromCivil(y, m, d), 0)]

\* time.Time.AddDate on the civil time now = [y, m, d, half]
AddDate(now, years, months, days) ==
    LET mm == (now.y + years) * 12 + (now.m - 1) + months
    IN  Instant(DaysFromCivil(mm \div 12, (mm % 12) + 1, now.d + days), now.half)

\* C27 mutant: the default start counted back from the end in use
MetricsRangeFromEnd(q, now) ==
    LET s == ParseDate(Get(q, "startDate"))
        e == ParseDate(Get(q, "endDate"))
        end == IF Get(q, "endDate") # <<>> /\ ~e.err THEN e.t
               ELSE AddDate(now, 0, 0, 0)
    IN  [start |-> IF Get(q, "startDate") # <<>> /\ ~s.err THEN s.t
                   ELSE end - 60,
         end   |-> end]

\* the dateRange of GetMetrics: the last 30 days unless the dates parse
MetricsRange(q, now) ==
    LET s == ParseDate(Get(q, "startDate"))
        e == ParseDate(Get(q, "endDate"))
    IN  [start |-> IF Get(q, "startDate") # <<>> /\ ~s.err THEN s.t
                   ELSE AddDate(now, 0, 0, 0 - 30),
         end   |-> IF Get(q, "endDate") # <<>> /\ ~e.err THEN e.t
                   ELSE AddDate(now, 0, 0, 0)]

\* the dateRange of GetTrends: the last 3 months unless the dates parse
TrendsRange(q, now) ==
    LET s == ParseDate(Get(q, "startDate"))
        e == ParseDate(Get(q, "endDate"))
    IN  [start |-> IF Get(q, "startDate") # <<>> /\ ~s.err THEN s.t
                   ELSE AddDate(now, 0, 0 - 3, 0),
         end   |-> IF Get(q, "endDate") # <<>> /\ ~e.err THEN e.t
                   ELSE AddDate(now, 0, 0, 0)]

\* the values time.Now() takes in the model
Nows == {[y |-> 2026, m |-> 3, d |-> 31, half |-> 1],
         [y |-> 2026, m |-> 11, d |-> 3, half |-> 0]}

DateTexts ==
    {Absent, <<>>,
     <<"2", "0", "2", "6", "-", "0", "3", "-", "0", "1">>,
     <<"2", "0", "2", "7", "-", "0", "1", "-", "1", "5">>,
     <<"2", "0", "2", "6", "-", "0", "2", "-", "3", "0">>,
     <<"0", "3", "/", "0", "1", "/", "2", "0", "2", "6">>}

DateQueries ==
    {Present([startDate |-> a, endDate |-> b], Absent) : a, b \in DateTexts}

GetMetrics ==
    /\ Accepting
    /\ \E auth \in Passing("GetMetrics"), q \in DateQueries, now \in Nows,
          reply \in UpstreamReplies :
        Serve(Request("GetMetrics", auth, "", q, NotJSON, NoForm),
              LET r == Query(reply)
              IN  IF r.err THEN respondError(500, <<"Failed to fetch metrics">>, TRUE)
                  ELSE respondJSON(200, r.data),
              <<Call("GetRecruitmentMetricsQuery",
                     [dateRange |-> MetricsRange(q, now)], reply)>>,
              <<>>)

GetJobPerformance ==
    /\ Accepting
    /\ \E auth \in Passing("GetJobPerformance"), id \in PathIds :
        LET r == Request("GetJobPerformance", auth, id, NoQuery, NotJSON, NoForm)
        IN  IF id = ""
            THEN Serve(r, respondError(400, <<"Job ID is required">>, FALSE),
                       <<>>, <<>>)
            ELSE \E reply \in UpstreamReplies :
                    Serve(r,
                          LET q == Query(reply)
                          IN  IF q.err
                              THEN respondError(500,
                                       <<"Failed to fetch job performance">>, TRUE)
                              ELSE respondJSON(200, q.data),
                          <<Call("GetJobPerformanceQuery", [jobId |-> id], reply)>>,
                          <<>>)

PipelineQueries == {NoQuery, [k \in {"jobId"} |-> <<"j", "1">>], [k \in {"jobId"} |-> <<>>]}

GetPipeline ==
    /\ Accepting
    /\ \E auth \in Passing("GetPipeline"), q \in PipelineQueries,
          reply \in UpstreamReplies :
        Serve(Request("GetPipeline", auth, "", q, NotJSON, NoForm),
              LET r == Query(reply)
              IN  IF r.err THEN respondError(500, <<"Failed to fetch pipeline">>, TRUE)
                  ELSE respondJSON(200, r.data),
              <<Call("GetApplicationPipelineQuery",
                     [k \in {j \in {"jobId"} : Get(q, "jobId") # <<>>} |->
                        Get(q, "jobId")],
                     reply)>>,
              <<>>)

\* GetTrends: the applicationTrend of the metrics when the data holds it,
\* else the data; data that is not an object panics
GetTrendsResponse(reply) ==
    LET r == Query(reply)
    IN  IF r.err THEN respondError(500, <<"Failed to fetch trends">>, TRUE)
        ELSE IF r.data.t # "object" THEN Recovered
        ELSE IF /\ "recruitmentMetrics" \in DOMAIN r.data.v
                /\ r.data.v["recruitmentMetrics"].t = "object"
                /\ "applicationTrend" \in DOMAIN r.data.v["recruitmentMetrics"].v
        THEN respondJSON(200,
                 JObj([applicationTrend |->
                         r.data.v["recruitmentMetrics"].v["applicationTrend"]]))
        ELSE respondJSON(200, r.data)

GetTrends ==
    /\ Accepting
    /\ \E auth \in Passing("GetTrends"), q \in DateQueries, now \in Nows,
          reply \in UpstreamReplies :
        Serve(Request("GetTrends", auth, "", q, NotJSON, NoForm),
              GetTrendsResponse(reply),
              <<Call("GetRecruitmentMetricsQuery",
                     [dateRange |-> TrendsRange(q, now)], reply)>>,
              <<>>)

----------------------------------------------------------------------------
(* The upload service *)

MaxUploadSize == 10485760

PresignExpires == 900

\* the content type of an allowed extension, "" for any other
AllowedExts(ext) ==
    IF ext = <<".", "p", "d", "f">> THEN "application/pdf"
    ELSE IF ext = <<".", "d", "o", "c">> THEN "application/msword"
    ELSE IF ext = <<".", "d", "o", "c", "x">>
    THEN "application/vnd.openxmlformats-officedocument.wordprocessingml.document"
    ELSE ""

AllowedTypes ==
    {"application/pdf", "application/msword",
     "application/vnd.openxmlformats-officedocument.wordprocessingml.document"}

\* the generated object key: resumes/<year>/<month>/<uuid><ext>
ObjectKey(month, uuid, ext) == <<"resumes/", month, "/", uuid, ext>>

\* the public URL of an object
FileURL(bucket, key) == <<"https://", bucket, ".s3.amazonaws.com/">> \o key

\* the values time.Now().Format("2006/01") and uuid.New() take in the model
Months == {"2026/11"}
UUIDs == {"u1", "u2"}

FileNames ==
    {<<"c", "v", ".", "p", "d", "f">>,
     <<"c", "v", ".", "P", "D", "F">>,
     <<"c", "v", ".", "d", "o", "c">>,
     <<"c", "v", ".", "D", "o", "c", "x">>,
     <<"c", "v", ".", "e", "x", "e">>,
     <<"c", "v", ".", "p", "d", "f", ".", "e", "x", "e">>,
     <<"c", ".", "v", ".", "p", "d", "f">>,
     <<"p", "d", "f">>,
     <<"c", "v", ".">>}

FileSizes == {0, 1, MaxUploadSize - 1, MaxUploadSize, MaxUploadSize + 1,
              11 * 1048576}

Forms ==
    {[kind |-> "notMultipart", filename |-> <<>>, size |-> 0],
     [kind |-> "noFile", filename |-> <<>>, size |-> 0]}
      \cup {[kind |-> "file", filename |-> f, size |-> n] :
              f \in FileNames, n \in FileSizes}

Put(bucket, key, contentType, result) ==
    [op |-> "PutObject", bucket |-> bucket, key |-> key,
     contentType |-> contentType, result |-> result]

\* C8 mutant: the extension compared as written
ResumeExtAsWritten(filename) == Ext(filename)

\* the extension UploadResume validates: lower-cased
ResumeExt(filename) == ToLower(Ext(filename))

\* the size check of UploadResume
TooLarge(size) == size > MaxUploadSize

UploadResume ==
    /\ Accepting
    /\ \E auth \in Passing("UploadResume"), form \in Forms :
        LET r == Request("UploadResume", auth, "", NoQuery, NotJSON, form)
            ext == ResumeExt(form.filename)
            contentType == AllowedExts(ext)
        IN  IF form.kind = "notMultipart"
            THEN Serve(r, HttpError(<<"Failed to parse form">>, 400), <<>>, <<>>)
            ELSE IF form.kind = "noFile"
            THEN Serve(r, HttpError(<<"Failed to get file from form">>, 400),
                       <<>>, <<>>)
            ELSE IF contentType = ""
            THEN Serve(r, HttpError(<<"Invalid file type. Only PDF, DOC, and DOCX are allowed">>,
                                    400), <<>>, <<>>)
            ELSE IF TooLarge(form.size)
            THEN Serve(r, HttpError(<<"File too large. Maximum size is 10MB">>, 400),
                       <<>>, <<>>)
            ELSE \E month \in Months, uuid \in UUIDs, result \in {"ok", "error"} :
                    LET key == ObjectKey(month, uuid, ext)
                        puts == <<Put(S3Bucket, key, contentType, result)>>
                    IN  IF result # "ok"
                        THEN Serve(r, HttpError(<<"Failed to upload file: ", "err">>, 500),
                                   <<>>, puts)
                        ELSE Serve(r,
                                   respondJSON(200,
                                       JObj([success          |-> JBool(TRUE),
                                             url              |-> JStr(FileURL(S3Bucket, key)),
                                             filename         |-> JStr(key),
                                             originalFilename |-> JStr(form.filename),
                                             size             |-> JNum(form.size),
                                             contentType      |-> JStr(contentType)])),
                                   <<>>, puts)

PresignBodies ==
    {NotJSON, JNull,
     JObj([filename |-> JStr(<<"c", "v", ".", "p", "d", "f">>),
           content_type |-> JStr("application/pdf")]),
     JObj([filename |-> JNum(1), contentType |-> JStr("application/pdf")])}
      \cup {JObj([filename |-> JStr(f), contentType |-> JStr(c)]) :
              f \in FileNames, c \in AllowedTypes \cup {"image/png", ""}}

\* json.Decoder.Decode into {Filename, ContentType}
DecodePresign(body) ==
    LET m == IF body.t = "object" THEN body.v ELSE EmptyMap
        bad == \E k \in {"filename", "contentType"} :
                  k \in DOMAIN m /\ m[k].t \notin {"string", "null"}
    IN  [err         |-> body.t \notin {"object", "null"} \/ bad,
         filename    |-> IF "filename" \in DOMAIN m /\ m["filename"].t = "string"
                         THEN m["filename"].v ELSE <<>>,
         contentType |-> IF "contentType" \in DOMAIN m /\ m["contentType"].t = "string"
                         THEN m["contentType"].v ELSE ""]

GetPresignedURL ==
    /\ Accepting
    /\ \E auth \in Passing("GetPresignedURL"), body \in PresignBodies :
        LET r == Request("GetPresignedURL", auth, "", NoQuery, body, NoForm)
            input == DecodePresign(body)
        IN  IF input.err
            THEN Serve(r, HttpError(<<"Invalid request body">>, 400), <<>>, <<>>)
            ELSE IF input.contentType \notin AllowedTypes
            THEN Serve(r, HttpError(<<"Invalid content type">>, 400), <<>>, <<>>)
            ELSE \E month \in Months, uuid \in UUIDs, result \in {"ok", "error"} :
                    LET key == ObjectKey(month, uuid, Ext(input.filename))
                        presign == <<[op |-> "PresignPutObject", bucket |-> S3Bucket,
                                      key |-> key, contentType |-> input.contentType,
                                      result |-> result]>>
                    IN  IF result # "ok"
                        THEN Serve(r, HttpError(<<"Failed to generate presigned URL: ",
                                                  "err">>, 500),
                                   <<>>, presign)
                        ELSE Serve(r,
                                   respondJSON(200,
                                       JObj([success   |-> JBool(TRUE),
                                             uploadUrl |-> JStr(<<"presigned:">> \o key),
                                             key       |-> JStr(key),
                                             url       |-> JStr(FileURL(S3Bucket, key)),
                                             expiresIn |-> JNum(PresignExpires)])),
                                   <<>>, presign)

----------------------------------------------------------------------------
Next ==
    \/ Reject
    \/ Health
    \/ Liveness
    \/ Readiness
    \/ ProxyHandler
    \/ ListJobs
    \/ GetJob
    \/ CreateJob
    \/ UpdateJob
    \/ PublishJob
    \/ CloseJob
    \/ DeleteJob
    \/ IncrementView
    \/ GenerateDescription
    \/ SubmitApplication
    \/ RespondAfterGo
    \/ ListApplications
    \/ GetApplication
    \/ UpdateStatus
    \/ BulkUpdateStatus
    \/ AddNote
    \/ ScoreApplication
    \/ GetCandidate
    \/ UpdateCandidate
    \/ GetMetrics
    \/ GetJobPerformance
    \/ GetPipeline
    \/ GetTrends
    \/ UploadResume
    \/ GetPresignedURL
    \/ SendApplicationConfirmation
    \/ SendStatusUpdate
    \/ Finish

Spec == Init /\ [][Next]_vars

\* the email service with all of its callers: the two handlers that start
\* a send, and direct callers of the sends no handler uses
ServiceNext ==
    \/ SubmitApplication
    \/ UpdateStatus
    \/ RespondAfterGo
    \/ Finish
    \/ SendApplicationConfirmation
    \/ SendStatusUpdate
    \/ SendInterviewInvitation
    \/ SendOfferLetter
    \/ SendRejection

ServiceSpec == Init /\ [][ServiceNext]_vars

----------------------------------------------------------------------------
(* The frontend: lib/api *)

\* the most fetchJobs calls one behaviour begins
MaxFetches == 3

\* what an HTTP exchange of the browser comes to: fetch rejects, or it
\* resolves with a response of some status and body
Rejected == [kind |-> "reject", status |-> 0, body |-> NotJSON]

Answer(status, body) == [kind |-> "response", status |-> status, body |-> body]

\* the outcome of an async function: it throws an Error with a message or
\* returns a value
Throw(message) == [threw |-> TRUE, message |-> message, value |-> undefined]

Return(value) == [threw |-> FALSE, message |-> <<>>, value |-> value]

\* JavaScript truthiness of the values the pages test
Truthy(x) ==
    /\ x.t \notin {"null", "undefined", "invalid"}
    /\ x.t = "string" => x.v # <<>>
    /\ x.t = "bool" => x.v
    /\ x.t = "number" => x.v # 0

\* data[k] of a parsed response: undefined when data is not an object with k
Member(data, k) ==
    IF data.t = "object" /\ k \in DOMAIN data.v THEN data.v[k] ELSE undefined

\* fetchAPI: a response that is not ok throws with errorData.error?.message
\* or the status; an ok response returns its parsed body
fetchAPI(reply) ==
    IF reply.kind = "reject" THEN Throw(<<"Failed to fetch">>)
    ELSE IF reply.status \notin 200..299
    THEN LET errorData == IF reply.body.t = "invalid" THEN JObj(EmptyMap)
                          ELSE reply.body
             message == Member(Member(errorData, "error"), "message")
         IN  IF errorData.t = "null" THEN Throw(<<"Cannot read properties of null">>)
             ELSE IF Truthy(message) THEN Throw(message.v)
             ELSE Throw(<<"Request failed with status ">> \o Itoa(reply.status))
    ELSE IF reply.body.t = "invalid" THEN Throw(<<"Unexpected token">>)
    ELSE Return(reply.body)

\* jobsAPI.list: data.jobs || []
jobsAPI_list(reply) ==
    LET data == fetchAPI(reply)
    IN  IF data.threw THEN data
        ELSE IF data.value.t = "null" THEN Throw(<<"Cannot read properties of null">>)
        ELSE IF Truthy(Member(data.value, "jobs"))
        THEN Return(Member(data.value, "jobs"))
        ELSE Return(JArr(<<>>))

\* jobsAPI.get: data.job
jobsAPI_get(reply) ==
    LET data == fetchAPI(reply)
    IN  IF data.threw THEN data
        ELSE IF data.value.t = "null" THEN Throw(<<"Cannot read properties of null">>)
        ELSE Return(Member(data.value, "job"))

\* jobsAPI.incrementView: the body of the response is not used
jobsAPI_incrementView(reply) ==
    LET data == fetchAPI(reply)
    IN  IF data.threw THEN data ELSE Return(undefined)

\* JSON.stringify of an object: the members that are undefined are left out
Stringify(f) == JObj([k \in {j \in DOMAIN f : f[j].t # "undefined"} |-> f[k]])

\* value || undefined for a form text
OrUndefined(text) == IF text = <<>> THEN undefined ELSE JStr(text)

\* the request applicationsAPI.submit sends for the ApplicationSubmission
\* that handleSubmit builds
applicationsAPI_submit(id, formData, resumeUrl) ==
    [method |-> "POST", endpoint |-> "/applications",
     body |-> Stringify([job_id        |-> JStr(id),
                         first_name    |-> JStr(formData.firstName),
                         last_name     |-> JStr(formData.lastName),
                         email         |-> JStr(formData.email),
                         phone         |-> JStr(formData.phone),
                         resume_url    |-> resumeUrl,
                         cover_letter  |-> OrUndefined(formData.coverLetter),
                         linkedin_url  |-> OrUndefined(formData.linkedinUrl),
                         portfolio_url |-> OrUndefined(formData.portfolioUrl)])]

\* the request uploadAPI.getPresignedURL sends
uploadAPI_getPresignedURL(filename, contentType) ==
    [method |-> "POST", endpoint |-> "/upload/presigned-url",
     body |-> Stringify([filename     |-> JStr(filename),
                         content_type |-> JStr(contentType)])]

\* url.split('?')[0]
BeforeQuery(url) == JStr(Split(url.v, "?")[1])

(* The server as the browser sees it *)

ErrorBody(status) == respondError(status, <<"Failed">>, TRUE).body

ListReplies ==
    {Rejected, Answer(500, ErrorBody(500)),
     Answer(200, JObj([jobs |-> JArr(<<JStr("job-7")>>)])),
     Answer(200, JObj([jobs |-> JNull]))}

GetReplies ==
    {Rejected, Answer(404, ErrorBody(404)),
     Answer(200, JObj([job |-> JObj([id |-> JStr("job-7")])]))}

ViewReplies ==
    {Rejected, Answer(500, ErrorBody(500)),
     Answer(200, JObj([success |-> JBool(TRUE)])),
     Answer(200, JObj([success |-> JBool(FALSE)]))}

PresignReplies ==
    {Rejected, Answer(400, NotJSON),
     Answer(200, JObj([url |-> JStr(<<"s", "3", "?", "X">>), key |-> JStr("k")])),
     Answer(200, JObj([uploadUrl |-> JStr(<<"s", "3", "?", "X">>), key |-> JStr("k")]))}

PutReplies == {Rejected, Answer(403, NotJSON), Answer(200, NotJSON)}

SubmitReplies ==
    {Rejected, Answer(400, ErrorBody(400)),
     Answer(201, JObj([application |-> JObj([id |-> JStr("a1")])]))}

Files == {[name |-> <<"c", "v", ".", "p", "d", "f">>, type |-> "application/pdf"]}

\* the texts typed into the form: every field, or the required ones only
FormTexts ==
    {[firstName |-> <<"Ann">>, lastName |-> <<"Lee">>,
      email |-> <<"ann@example.com">>, phone |-> <<"555">>,
      coverLetter |-> c, linkedinUrl |-> c, portfolioUrl |-> c] :
        c \in {<<>>, <<"text">>}}

(* The jobs store and the Home page *)

\* C26 mutant: the catch branch of fetchJobs also emptying the list
fetchJobsCatchClearing(state, message) ==
    [state EXCEPT !.jobs = JArr(<<>>), !.loading = FALSE, !.error = JStr(message)]

\* the update in the catch branch of fetchJobs; what is thrown is an Error
fetchJobsCatch(state, message) ==
    [state EXCEPT !.loading = FALSE, !.error = JStr(message)]

\* fetchJobs up to its await of jobsAPI.list
fetchJobs ==
    /\ Len(fetches) < MaxFetches
    /\ jobsStore' = [jobsStore EXCEPT !.loading = TRUE, !.error = JNull]
    /\ fetches' = Append(fetches, "pending")

\* the router mounts Home, whose onMount calls fetchJobs
HomeOnMount ==
    /\ page # "Home"
    /\ page' = "Home"
    /\ fetchJobs
    /\ UNCHANGED <<detail, sendGridKey, pc, req, resp, upstream, storage, started,
                   tasks, held, mail>>

\* a click on Try Again, which Home shows when not loading and with an error
TryAgain ==
    /\ page = "Home"
    /\ ~jobsStore.loading /\ Truthy(jobsStore.error)
    /\ fetchJobs
    /\ UNCHANGED <<page, detail, sendGridKey, pc, req, resp, upstream, storage,
                   started, tasks, held, mail>>

\* the jobsAPI.list of one fetchJobs call settles and the call runs to its end
fetchJobsSettles ==
    \E i \in 1..Len(fetches), reply \in ListReplies :
        /\ fetches[i] = "pending"
        /\ LET jobs == jobsAPI_list(reply)
           IN  /\ jobsStore' =
                     IF jobs.threw THEN fetchJobsCatch(jobsStore, jobs.message)
                     ELSE [jobsStore EXCEPT !.jobs = jobs.value, !.loading = FALSE]
               /\ fetches' = [fetches EXCEPT
                                ![i] = IF jobs.threw THEN "failed" ELSE "ok"]
        /\ UNCHANGED <<page, detail, sendGridKey, pc, req, resp, upstream, storage,
                       started, tasks, held, mail>>

FilterValues == {"", "eng"}

\* JobFilters sets a filter of the store
setFilter ==
    /\ page = "Home"
    /\ \E key \in {"department", "search"}, value \in FilterValues :
          jobsStore' = [jobsStore EXCEPT !.filters[key] = value]
    /\ UNCHANGED <<page, fetches, detail, sendGridKey, pc, req, resp, upstream,
                   storage, started, tasks, held, mail>>

clearFilters ==
    /\ page = "Home"
    /\ jobsStore' = [jobsStore EXCEPT !.filters = InitialJobsState.filters]
    /\ UNCHANGED <<page, fetches, detail, sendGridKey, pc, req, resp, upstream,
                   storage, started, tasks, held, mail>>

(* The job detail page *)

\* the router mounts JobDetail, whose onMount begins with jobsAPI.get.  One
\* component at a time has calls in flight.
JobDetailOnMount ==
    /\ page # "JobDetail"
    /\ detail.onMount \in {"unmounted", "returned"}
    /\ detail.handleSubmit = "idle"
    /\ page' = "JobDetail"
    /\ detail' = JobDetail("job-7")
    /\ UNCHANGED <<jobsStore, fetches, sendGridKey, pc, req, resp, upstream,
                   storage, started, tasks, held, mail>>

\* onMount from the return of jobsAPI.incrementView to its end
onMountViewed(d, viewed) ==
    IF viewed.threw
    THEN [d EXCEPT !.error = JStr(viewed.message), !.loading = FALSE,
                   !.onMount = "returned"]
    ELSE [d EXCEPT !.loading = FALSE, !.onMount = "returned"]

\* jobsAPI.get settles: onMount goes on to jobsAPI.incrementView, or to its
\* catch
jobsAPI_getSettles ==
    /\ detail.onMount = "called"
    /\ \E reply \in GetReplies :
          LET job == jobsAPI_get(reply)
          IN  detail' =
                 IF job.threw
                 THEN [detail EXCEPT !.error = JStr(job.message), !.loading = FALSE,
                                     !.onMount = "returned"]
                 ELSE [detail EXCEPT !.job = job.value, !.onMount = "incrementView"]
    /\ UNCHANGED <<page, jobsStore, fetches, sendGridKey, pc, req, resp, upstream,
                   storage, started, tasks, held, mail>>

jobsAPI_incrementViewSettles ==
    /\ detail.onMount = "incrementView"
    /\ \E reply \in ViewReplies :
          detail' = onMountViewed(detail, jobsAPI_incrementView(reply))
    /\ UNCHANGED <<page, jobsStore, fetches, sendGridKey, pc, req, resp, upstream,
                   storage, started, tasks, held, mail>>

\* the page is in the branch that shows the job
ShowsJob == page = "JobDetail" /\ ~detail.loading /\ ~Truthy(detail.error)
               /\ Truthy(detail.job)

\* the application form is on the page
ShowsForm == ShowsJob /\ detail.showApplicationForm /\ ~detail.submitSuccess

\* the Apply Now button
ShowApplicationForm ==
    /\ ShowsJob /\ ~detail.showApplicationForm /\ ~detail.submitSuccess
    /\ detail' = [detail EXCEPT !.showApplicationForm = TRUE]
    /\ UNCHANGED <<page, jobsStore, fetches, sendGridKey, pc, req, resp, upstream,
                   storage, started, tasks, held, mail>>

\* the Cancel button, disabled while submitting
Cancel ==
    /\ ShowsForm /\ ~detail.submitting
    /\ detail' = [detail EXCEPT !.showApplicationForm = FALSE]
    /\ UNCHANGED <<page, jobsStore, fetches, sendGridKey, pc, req, resp, upstream,
                   storage, started, tasks, held, mail>>

\* the inputs bound to formData are typed into
FillForm ==
    /\ ShowsForm /\ detail.handleSubmit = "idle"
    /\ \E texts \in FormTexts :
          detail' = [detail EXCEPT
                       !.formData = [k \in DOMAIN EmptyFormData |->
                                       IF k = "resumeFile" THEN @[k] ELSE texts[k]]]
    /\ UNCHANGED <<page, jobsStore, fetches, sendGridKey, pc, req, resp, upstream,
                   storage, started, tasks, held, mail>>

handleFileSelect ==
    /\ ShowsForm /\ detail.handleSubmit = "idle"
    /\ \E file \in Files :
          detail' = [detail EXCEPT !.formData.resumeFile = JObj(file)]
    /\ UNCHANGED <<page, jobsStore, fetches, sendGridKey, pc, req, resp, upstream,
                   storage, started, tasks, held, mail>>

\* the catch branch of handleSubmit
handleSubmitCatch(d, message) ==
    [d EXCEPT !.submitError = JStr(message), !.submitting = FALSE,
              !.handleSubmit = "idle"]

\* the form is submitted: handleSubmit up to the first await, inside
\* uploadAPI.uploadFile.  The submit button is disabled while submitting.
handleSubmit ==
    /\ ShowsForm /\ ~detail.submitting
    /\ detail' =
          IF ~Truthy(detail.formData.resumeFile)
          THEN [detail EXCEPT !.submitError = JStr(<<"Please upload your resume">>)]
          ELSE LET file == detail.formData.resumeFile.v
               IN  [detail EXCEPT
                      !.submitting = TRUE, !.submitError = JNull,
                      !.resumeUploading = TRUE,
                      !.handleSubmit = "getPresignedURL",
                      !.url = undefined,
                      !.sent = <<uploadAPI_getPresignedURL(file.name, file.type)>>]
    /\ UNCHANGED <<page, jobsStore, fetches, sendGridKey, pc, req, resp, upstream,
                   storage, started, tasks, held, mail>>

\* getPresignedURL settles: uploadFile takes url from the data and PUTs the
\* file to it
uploadAPI_getPresignedURLSettles ==
    /\ detail.handleSubmit = "getPresignedURL"
    /\ \E reply \in PresignReplies :
          LET data == fetchAPI(reply)
          IN  detail' =
                 IF data.threw THEN handleSubmitCatch(detail, data.message)
                 ELSE IF data.value.t \in {"null", "undefined"}
                 THEN handleSubmitCatch(detail, <<"Cannot destructure">>)
                 ELSE LET url == Member(data.value, "url")
                      IN  [detail EXCEPT
                             !.handleSubmit = "put", !.url = url]
    /\ UNCHANGED <<page, jobsStore, fetches, sendGridKey, pc, req, resp, upstream,
                   storage, started, tasks, held, mail>>

\* the PUT settles: uploadFile returns the url without its query and
\* handleSubmit goes on to applicationsAPI.submit
uploadAPI_uploadFileSettles ==
    /\ detail.handleSubmit = "put"
    /\ \E reply \in PutReplies :
          detail' =
             IF reply.kind = "reject"
             THEN handleSubmitCatch(detail, <<"Failed to fetch">>)
             ELSE IF reply.status \notin 200..299
             THEN handleSubmitCatch(detail, <<"Failed to upload file">>)
             ELSE IF detail.url.t # "string"
             THEN handleSubmitCatch(detail, <<"Cannot read properties of undefined">>)
             ELSE [detail EXCEPT
                     !.resumeUploading = FALSE,
                     !.handleSubmit = "submit",
                     !.sent = Append(@, applicationsAPI_submit(
                                           detail.id, detail.formData,
                                           BeforeQuery(detail.url)))]
    /\ UNCHANGED <<page, jobsStore, fetches, sendGridKey, pc, req, resp, upstream,
                   storage, started, tasks, held, mail>>

\* applicationsAPI.submit settles and handleSubmit runs to its end
applicationsAPI_submitSettles ==
    /\ detail.handleSubmit = "submit"
    /\ \E reply \in SubmitReplies :
          LET data == fetchAPI(reply)
          IN  detail' =
                 IF data.threw THEN handleSubmitCatch(detail, data.message)
                 ELSE [detail EXCEPT !.submitSuccess = TRUE, !.handleSubmit = "idle"]
    /\ UNCHANGED <<page, jobsStore, fetches, sendGridKey, pc, req, resp, upstream,
                   storage, started, tasks, held, mail>>

FrontendNext ==
    \/ HomeOnMount
    \/ TryAgain
    \/ fetchJobsSettles
    \/ setFilter
    \/ clearFilters
    \/ JobDetailOnMount
    \/ jobsAPI_getSettles
    \/ jobsAPI_incrementViewSettles
    \/ ShowApplicationForm
    \/ Cancel
    \/ FillForm
    \/ handleFileSelect
    \/ handleSubmit
    \/ uploadAPI_getPresignedURLSettles
    \/ uploadAPI_uploadFileSettles
    \/ applicationsAPI_submitSettles

\* the frontend on its own: the server's variables keep their first values
FrontendInit == Init /\ sendGridKey = ""

FrontendSpec == FrontendInit /\ [][FrontendNext]_vars


----------------------------------------------------------------------------
(* Properties *)

\* the handler of the request ran: the middleware did not answer for it
Reached == req.route # "" /\ resp.status # 401

Failed(reply) ==
    reply.transport = "error" \/ reply.status # 200 \/ ~reply.decodable

\* C1: ListJobs and ListApplications send upstream the supplied limit when
\* it is an integer in [1,100] and 20 otherwise, and the supplied offset
\* when it is an integer >= 0 and 0 otherwise, each decided on its own; no
\* upstream request carries a limit outside [1,100] or a negative offset.
C1_Limit(q) ==
    IF "limit" \in DOMAIN q /\ \E n \in 1..100 : q["limit"] \in IntTexts(n)
    THEN CHOOSE n \in 1..100 : q["limit"] \in IntTexts(n)
    ELSE 20

C1_Offset(q) ==
    IF "offset" \in DOMAIN q /\ \E n \in 0..(100 + MaxOver) : q["offset"] \in IntTexts(n)
    THEN CHOOSE n \in 0..(100 + MaxOver) : q["offset"] \in IntTexts(n)
    ELSE 0

C1_PaginationNormalised ==
    /\ (pc = "done" /\ req.route \in {"ListJobs", "ListApplications"} /\ Reached)
          => /\ Len(upstream) = 1
             /\ upstream[1].variables["limit"] = C1_Limit(req.query)
             /\ upstream[1].variables["offset"] = C1_Offset(req.query)
    /\ \A i \in 1..Len(upstream) :
          upstream[i].op \in {"GetJobsQuery", "GetApplicationsQuery"}
             => /\ upstream[i].variables["limit"] \in 1..100
                /\ upstream[i].variables["offset"] >= 0

\* C1 witness: a limit in range is kept while the negative offset beside it
\* falls back, and a limit above 100 falls back while its offset is kept
C1_Witness ==
    /\ pc = "done" /\ req.route = "ListApplications"
    /\ Get(req.query, "limit") = <<"1", "0", "1">>
    /\ Get(req.query, "offset") = <<"2">>
    /\ upstream[1].variables["limit"] = 20
    /\ upstream[1].variables["offset"] = 2

\* C2: every upstream job-list query carries filters.status: PUBLISHED when
\* the status parameter is absent or empty, else the supplied value.
C2_StatusDefaulted ==
    /\ (pc = "done" /\ req.route = "ListJobs" /\ Reached) => Len(upstream) = 1
    /\ \A i \in 1..Len(upstream) :
          upstream[i].op = "GetJobsQuery"
             => /\ "filters" \in DOMAIN upstream[i].variables
                /\ "status" \in DOMAIN upstream[i].variables["filters"]
                /\ upstream[i].variables["filters"]["status"] =
                      IF "status" \notin DOMAIN req.query \/ req.query["status"] = <<>>
                      THEN <<"P", "U", "B", "L", "I", "S", "H", "E", "D">>
                      ELSE req.query["status"]

\* C2 witness: a job list without a status parameter has gone upstream
C2_Witness ==
    /\ pc = "done" /\ req.route = "ListJobs"
    /\ "status" \notin DOMAIN req.query
    /\ Len(upstream) = 1
    /\ upstream[1].variables["filters"]["status"] =
          <<"P", "U", "B", "L", "I", "S", "H", "E", "D">>

\* C3: GetJob, GetApplication and GetCandidate with a non-empty id answer
\* 500 when the upstream call fails, 404 when it succeeds with null data and
\* 200 with the data when it succeeds with data.
C3_ByIdOutcome ==
    (/\ pc = "done"
     /\ req.route \in {"GetJob", "GetApplication", "GetCandidate"}
     /\ Reached /\ req.id # "")
       => /\ Len(upstream) = 1
          /\ LET reply == upstream[1].reply
             IN  /\ Failed(reply) => resp.status = 500
                 /\ (~Failed(reply) /\ reply.data.t = "null") => resp.status = 404
                 /\ (~Failed(reply) /\ reply.data.t # "null")
                       => resp.status = 200 /\ resp.body = reply.data

\* C3 witness: a candidate lookup that upstream answered with null data
C3_Witness ==
    /\ pc = "done" /\ req.route = "GetCandidate" /\ req.id # ""
    /\ Len(upstream) = 1
    /\ ~Failed(upstream[1].reply) /\ upstream[1].reply.data.t = "null"
    /\ resp.status = 404

\* C4: CreateJob, SubmitApplication and GenerateDescription answer a body
\* that lacks a required key with 400, naming the first missing key in
\* declared order, and make no upstream call.
C4_Required(route) ==
    CASE route = "CreateJob" ->
            <<"title", "department", "location", "employmentType",
              "experienceLevel", "description", "requirements", "skills">>
      [] route = "SubmitApplication" ->
            <<"jobId", "firstName", "lastName", "email", "phone", "resumeUrl",
              "currentLocation", "availability">>
      [] route = "GenerateDescription" ->
            <<"title", "department", "experienceLevel", "keySkills">>

C4_KeysOf(body) == IF body.t = "object" THEN DOMAIN body.v ELSE {}

C4_MissingFieldRejected ==
    (/\ pc = "done"
     /\ req.route \in {"CreateJob", "SubmitApplication", "GenerateDescription"}
     /\ Reached /\ req.body.t \in {"object", "null"})
       => LET fields == C4_Required(req.route)
              keys == C4_KeysOf(req.body)
          IN  \A i \in 1..Len(fields) :
                 (fields[i] \notin keys /\ \A j \in 1..(i - 1) : fields[j] \in keys)
                    => /\ resp.status = 400
                       /\ resp.body.t = "object"
                       /\ resp.body.v["message"] =
                             JStr(<<"Missing required field: ", fields[i]>>)
                       /\ upstream = <<>>

\* C4 witness: an application lacking two required keys, answered for the
\* earlier one
C4_Witness ==
    /\ pc = "done" /\ req.route = "SubmitApplication" /\ req.body.t = "object"
    /\ "jobId" \in DOMAIN req.body.v
    /\ "firstName" \in DOMAIN req.body.v
    /\ "lastName" \notin DOMAIN req.body.v
    /\ "phone" \notin DOMAIN req.body.v
    /\ resp.status = 400
    /\ resp.body.v["message"] = JStr(<<"Missing required field: ", "lastName">>)
    /\ upstream = <<>>

\* C5: IncrementView with a non-empty id answers 200 whatever the upstream
\* call does: success false when it fails, the upstream data when it succeeds.
C5_ViewAlwaysOK ==
    (pc = "done" /\ req.route = "IncrementView" /\ Reached /\ req.id # "")
       => /\ Len(upstream) = 1
          /\ resp.status = 200
          /\ LET reply == upstream[1].reply
             IN  /\ Failed(reply)
                       => /\ resp.body.t = "object"
                          /\ "success" \in DOMAIN resp.body.v
                          /\ resp.body.v["success"] = JBool(FALSE)
                 /\ ~Failed(reply) => resp.body = reply.data

\* C5 witness: a view increment whose upstream call failed in transport
C5_Witness ==
    /\ pc = "done" /\ req.route = "IncrementView" /\ req.id # ""
    /\ Len(upstream) = 1 /\ upstream[1].reply.transport = "error"
    /\ resp.status = 200
    /\ resp.body.v["success"] = JBool(FALSE)

\* C6: SubmitApplication with every required field present as a string:
\* when the upstream mutation succeeds the answer is 201 and exactly one
\* confirmation send is started, with the submitted email, firstName and
\* jobId; when validation or the upstream mutation fails none is started.
C6_Complete(body) ==
    /\ body.t = "object"
    /\ \A k \in {"jobId", "firstName", "lastName", "email", "phone", "resumeUrl",
                 "currentLocation", "availability"} :
          k \in DOMAIN body.v /\ body.v[k].t = "string"

C6_Lacking(body) ==
    \/ body.t # "object"
    \/ \E k \in {"jobId", "firstName", "lastName", "email", "phone", "resumeUrl",
                 "currentLocation", "availability"} : k \notin DOMAIN body.v

C6_OneConfirmation ==
    (req.route = "SubmitApplication" /\ Reached)
       => /\ (C6_Complete(req.body) /\ ~Failed(upstream[1].reply))
                => /\ pc = "done" => resp.status = 201
                   /\ started = <<[fn   |-> "SendApplicationConfirmation",
                                   args |-> <<req.body.v["email"].v,
                                              req.body.v["firstName"].v,
                                              req.body.v["jobId"].v>>]>>
          /\ C6_Lacking(req.body) => started = <<>> /\ upstream = <<>>
          /\ (upstream # <<>> /\ Failed(upstream[1].reply)) => started = <<>>

\* C6 witness: a complete application answered 201 with its one send
C6_Witness ==
    /\ pc = "done" /\ req.route = "SubmitApplication"
    /\ C6_Complete(req.body)
    /\ resp.status = 201
    /\ Len(started) = 1
    /\ started[1].args = <<"ann@example.com", "Ann", "job-7">>

\* C7: the response of SubmitApplication and UpdateStatus never waits for
\* the background email task and never depends on it: it can be written
\* while the task is pending, no step of a task changes it, and the task
\* outlives the request.
C7_ResponseIndependentOfEmail ==
    /\ [](pc = "respond" => ENABLED RespondAfterGo)
    /\ [][(tasks' # tasks /\ Len(tasks') < Len(tasks))
             => (resp' = resp /\ held' = held /\ pc' = pc)]_vars
    /\ [][(pc = "respond" /\ pc' = "done")
             => (resp' = held /\ resp'.body = upstream[1].reply.data)]_vars
    /\ [][(pc = "done" /\ pc' = "idle") => tasks' = tasks]_vars

\* C7 witness: the 201 is written and the request over while the
\* confirmation task it started has not run
C7_Witness ==
    /\ pc = "done" /\ req.route = "SubmitApplication"
    /\ resp.status = 201
    /\ Len(started) = 1
    /\ \E i \in 1..Len(tasks) : tasks[i] = started[1]

\* C8: UploadResume rejects with 400, without a storage put, a file whose
\* extension (case-insensitively) is not .pdf, .doc or .docx or whose size
\* exceeds 10 MiB; an allowed file of at most 10 MiB causes exactly one put,
\* with the content type of its extension and a server-generated key, and on
\* put success a 200 whose url is built from the bucket and that key.
C8_TypeOf(filename) ==
    CASE filename \in {<<"c", "v", ".", "p", "d", "f">>,
                       <<"c", "v", ".", "P", "D", "F">>,
                       <<"c", ".", "v", ".", "p", "d", "f">>} -> "application/pdf"
      [] filename = <<"c", "v", ".", "d", "o", "c">> -> "application/msword"
      [] filename = <<"c", "v", ".", "D", "o", "c", "x">> ->
            "application/vnd.openxmlformats-officedocument.wordprocessingml.document"
      [] OTHER -> "not allowed"

C8_UploadValidated ==
    (pc = "done" /\ req.route = "UploadResume" /\ Reached /\ req.form.kind = "file")
       => IF C8_TypeOf(req.form.filename) = "not allowed"
             \/ req.form.size > 10 * 1024 * 1024
          THEN resp.status = 400 /\ storage = <<>>
          ELSE /\ Len(storage) = 1
               /\ storage[1].op = "PutObject"
               /\ storage[1].contentType = C8_TypeOf(req.form.filename)
               /\ storage[1].key[4] \in UUIDs
               /\ storage[1].result = "ok"
                     => /\ resp.status = 200
                        /\ resp.body.v["url"] =
                              JStr(<<"https://", "hr-recruiting-resumes",
                                     ".s3.amazonaws.com/">> \o storage[1].key)

\* C8 witness: an upper-case .PDF of exactly 10 MiB is stored and answered 200
C8_Witness ==
    /\ pc = "done" /\ req.route = "UploadResume"
    /\ req.form.filename = <<"c", "v", ".", "P", "D", "F">>
    /\ req.form.size = 10 * 1024 * 1024
    /\ Len(storage) = 1 /\ storage[1].result = "ok"
    /\ resp.status = 200

\* C9: on every route of the authenticated group a request without an
\* Authorization header, or with one that is not "Bearer <token>", is
\* answered 401 without its handler running or an upstream call; with
\* "Bearer <token>" it reaches the handler whatever the token.
C9_AuthenticatedGroup ==
    {"CreateJob", "UpdateJob", "PublishJob", "CloseJob", "DeleteJob",
     "GenerateDescription", "ListApplications", "GetApplication", "UpdateStatus",
     "AddNote", "ScoreApplication", "BulkUpdateStatus", "GetMetrics",
     "GetJobPerformance", "GetPipeline", "GetTrends", "GetCandidate",
     "UpdateCandidate"}

\* the header is the word Bearer, one blank and a token without blanks
C9_IsBearer(h) ==
    /\ Len(h) > 7
    /\ SubSeq(h, 1, 7) = <<"B", "e", "a", "r", "e", "r", " ">>
    /\ \A i \in 8..Len(h) : h[i] # " "

C9_BearerGatesGroup ==
    (pc \in {"respond", "done"} /\ req.route \in C9_AuthenticatedGroup)
       => IF C9_IsBearer(req.auth)
          THEN pc = "done" => resp.status # 401
          ELSE /\ pc = "done" /\ resp.status = 401
               /\ upstream = <<>> /\ storage = <<>> /\ started = <<>>

\* C9 witness: a protected route served to a bearer of an arbitrary token
C9_Witness ==
    /\ pc = "done" /\ req.route = "DeleteJob"
    /\ req.auth = <<"B", "e", "a", "r", "e", "r", " ", "x", "9">>
    /\ resp.status = 200
    /\ Len(upstream) = 1

\* C10: every error response (status 400 and above) carries the JSON body
\* {error, message, status} with status equal to the HTTP status.
C10_ErrorShape ==
    (pc = "done" /\ resp.status >= 400)
       => /\ resp.ctype = "application/json"
          /\ resp.body.t = "object"
          /\ {"error", "message", "status"} \subseteq DOMAIN resp.body.v
          /\ resp.body.v["status"] = JNum(resp.status)


\* C11: GET /health/live answers 200 to every request, whatever its headers
\* and whatever upstream does, and makes no upstream call.
C11_LivenessAlways200 ==
    (pc = "done" /\ req.route = "Liveness")
       => resp.status = 200 /\ upstream = <<>>

\* C12: GET /health/ready and GET /health each send one minimal upstream
\* query and answer 503 exactly when it fails and 200 exactly when it
\* succeeds; /health says "degraded" on failure and "healthy" on success.
C12_HealthReflectsUpstream ==
    (pc = "done" /\ req.route \in {"Health", "Readiness"} /\ Reached)
       => /\ Len(upstream) = 1
          /\ upstream[1].op = "query { __typename }"
          /\ upstream[1].variables = <<>>
          /\ resp.status \in {200, 503}
          /\ resp.status = 503 <=> Failed(upstream[1].reply)
          /\ req.route = "Health"
                => resp.body.v["status"] =
                      IF Failed(upstream[1].reply) THEN JStr("degraded")
                      ELSE JStr("healthy")

\* C12 witness: a health check answered 503 "degraded" because upstream
\* answered with a status other than 200
C12_Witness ==
    /\ pc = "done" /\ req.route = "Health"
    /\ Len(upstream) = 1
    /\ upstream[1].reply.transport = "ok" /\ upstream[1].reply.status = 500
    /\ resp.status = 503
    /\ resp.body.v["status"] = JStr("degraded")

\* C13: the gateway call fails exactly on a transport error, a status other
\* than 200 or an undecodable body; a 200 reply with a non-empty errors list
\* is a success whose data is returned as it is, so the status a relaying
\* handler answers for a 200 reply with non-null data does not depend on
\* the errors list.
C13_FailureSeen ==
    CASE req.route \in {"Health", "Readiness"} -> resp.status = 503
      [] req.route = "IncrementView" ->
            /\ resp.body.t = "object"
            /\ "success" \in DOMAIN resp.body.v
            /\ resp.body.v["success"] = JBool(FALSE)
      [] OTHER ->
            /\ resp.status = 500
            /\ resp.body.t = "object"
            /\ "details" \in DOMAIN resp.body.v

\* the status for a successful call with non-null data: read from the
\* route, the request and the data, never from the errors list
C13_Status(r, data) ==
    CASE r.route \in {"CreateJob", "AddNote"} -> 201
      [] r.route = "SubmitApplication" ->
            IF \A k \in {"email", "firstName", "jobId"} : r.body.v[k].t = "string"
            THEN 201 ELSE 500
      [] r.route = "ListJobs" ->
            IF /\ data.t = "object" /\ "jobs" \in DOMAIN data.v
               /\ data.v["jobs"].t = "array"
            THEN 200 ELSE 500
      [] r.route = "GetTrends" -> IF data.t = "object" THEN 200 ELSE 500
      [] OTHER -> 200

C14_ProxyForwardsEveryBody ==
    (pc = "done" /\ req.route = "ProxyHandler" /\ Reached)
       => /\ Len(upstream) = 1
          /\ upstream[1].variables["body"] = req.body
          /\ upstream[1].reply.transport = "ok"
                => resp.status = upstream[1].reply.status


\* C15: on GET /api/v1/jobs each of the keys department, location, type, q,
\* remote and status, given with a non-empty value, puts its entry in the
\* filters sent upstream (departments, locations, employmentTypes, query,
\* remoteWork, status); an unrecognised key is never answered with an error.
C15_Given(q, k) == k \in DOMAIN q /\ q[k] # <<>>

C15_FiltersFromSurfaceKeys ==
    (pc = "done" /\ req.route = "ListJobs" /\ Reached)
       => /\ Len(upstream) = 1
          /\ resp.status # 400
          /\ LET f == upstream[1].variables["filters"]
                 q == req.query
             IN  /\ C15_Given(q, "department")
                       => "departments" \in DOMAIN f /\ f["departments"] = <<q["department"]>>
                 /\ C15_Given(q, "location")
                       => "locations" \in DOMAIN f /\ f["locations"] = <<q["location"]>>
                 /\ C15_Given(q, "type")
                       => /\ "employmentTypes" \in DOMAIN f
                          /\ f["employmentTypes"] = <<q["type"]>>
                 /\ C15_Given(q, "q")
                       => "query" \in DOMAIN f /\ f["query"] = q["q"]
                 /\ C15_Given(q, "remote") => "remoteWork" \in DOMAIN f
                 /\ C15_Given(q, "status")
                       => "status" \in DOMAIN f /\ f["status"] = q["status"]

\* C16: without an email credential every send of the notification service
\* returns success and sends nothing to the provider, and SubmitApplication
\* and UpdateStatus answer as they do with a credential.
C16_DisabledEmailIsSilent ==
    /\ sendGridKey = ""
          => \A i \in 1..Len(mail) :
                ~mail[i].posted /\ ~mail[i].err /\ mail[i].reply.transport = "none"
    /\ (/\ pc = "done" /\ Reached /\ Len(upstream) = 1
        /\ ~Failed(upstream[1].reply))
          => /\ req.route = "UpdateStatus"
                   => /\ resp.status = 200 /\ resp.body = upstream[1].reply.data
                      /\ Len(started) = 1
             /\ (req.route = "SubmitApplication" /\ C6_Complete(req.body))
                   => /\ resp.status = 201 /\ resp.body = upstream[1].reply.data
                      /\ Len(started) = 1

\* C16 witness: without a credential an application is answered 201 and its
\* confirmation send has returned success without a request to the provider
C16_Witness ==
    /\ sendGridKey = ""
    /\ pc = "done" /\ req.route = "SubmitApplication" /\ resp.status = 201
    /\ Len(mail) = 1
    /\ mail[1].fn = "SendApplicationConfirmation"
    /\ ~mail[1].posted /\ ~mail[1].err

\* C17: a SubmitApplication body holding all eight required keys, whatever
\* the JSON types of their values, is answered 201 whenever the upstream
\* mutation succeeds.
C17_AcceptedApplicationGets201 ==
    (/\ pc = "done" /\ req.route = "SubmitApplication" /\ Reached
     /\ req.body.t = "object"
     /\ {"jobId", "firstName", "lastName", "email", "phone", "resumeUrl",
         "currentLocation", "availability"} \subseteq DOMAIN req.body.v
     /\ Len(upstream) = 1 /\ ~Failed(upstream[1].reply))
       => resp.status = 201

\* C18: whenever the gateway call of ListJobs succeeds, ListJobs answers 200
\* with the data unchanged and X-Total-Count equal to the number of jobs in
\* the page, whatever the shape of the data; GetTrends answers 200 for
\* every successful gateway call.
C18_JobsIn(data) ==
    IF data.t = "object" /\ "jobs" \in DOMAIN data.v /\ data.v["jobs"].t = "array"
    THEN Len(data.v["jobs"].v) ELSE 0

C18_SuccessfulCallIs200 ==
    (/\ pc = "done" /\ req.route \in {"ListJobs", "GetTrends"} /\ Reached
     /\ Len(upstream) = 1 /\ ~Failed(upstream[1].reply))
       => /\ resp.status = 200
          /\ req.route = "ListJobs"
                => /\ resp.body = upstream[1].reply.data
                   /\ "X-Total-Count" \in DOMAIN resp.headers
                   /\ resp.headers["X-Total-Count"] \in
                         IntTexts(C18_JobsIn(upstream[1].reply.data))

\* C19 as stated: every handler makes at most one upstream request, a failed
\* call is not repeated and is reported by the same response with 500 or
\* the soft 200 of view-increment, and nothing is queued.
C19_CallFailed == upstream[1].reply.transport # "ok"
                     \/ (req.route # "ProxyHandler" /\ Failed(upstream[1].reply))

C19_FailureIs500OrSoft200 ==
    /\ Len(upstream) <= 1
    /\ (pc = "done" /\ Reached /\ Len(upstream) = 1 /\ C19_CallFailed)
          => /\ started = <<>>
             /\ IF req.route = "IncrementView"
                THEN resp.status = 200 /\ resp.body.v["success"] = JBool(FALSE)
                ELSE resp.status = 500

\* C19 amended: every handler makes at most one upstream request, a failed
\* call is not repeated and is reported by the same response: 500 from the
\* REST handlers, 503 from the health checks, 502 from the proxy, the soft
\* 200 of view-increment; nothing is queued.
C19_OneCallFailureReported ==
    /\ Len(upstream) <= 1
    /\ (pc = "done" /\ Reached /\ Len(upstream) = 1 /\ C19_CallFailed)
          => /\ started = <<>>
             /\ resp.status =
                   CASE req.route = "IncrementView" -> 200
                     [] req.route \in {"Health", "Readiness"} -> 503
                     [] req.route = "ProxyHandler" -> 502
                     [] OTHER -> 500
             /\ req.route = "IncrementView"
                   => resp.body.v["success"] = JBool(FALSE)

\* C19 witness: a job read whose one upstream call failed in transport,
\* answered 500 with nothing started
C19_Witness ==
    /\ pc = "done" /\ req.route = "GetJob"
    /\ Len(upstream) = 1 /\ upstream[1].reply.transport = "error"
    /\ resp.status = 500
    /\ started = <<>> /\ tasks = <<>>

\* C20: GetPresignedURL validates like the direct upload: a file name whose
\* extension is not .pdf, .doc or .docx, or a content type that is not the
\* one of that extension, is answered 400 before any presign call, so no
\* pre-signed URL is issued for a key with another extension.
C20_PresignValidated ==
    (/\ pc = "done" /\ req.route = "GetPresignedURL" /\ Reached
     /\ req.body.t = "object"
     /\ {"filename", "contentType"} \subseteq DOMAIN req.body.v
     /\ req.body.v["filename"].t = "string")
       => LET type == C8_TypeOf(req.body.v["filename"].v)
          IN  (type = "not allowed" \/ req.body.v["contentType"].v # type)
                 => resp.status = 400 /\ storage = <<>>

\* C21: GetJobPerformance with a non-empty id answers exactly 404 when the
\* upstream call succeeds with null data and exactly 500 when the call
\* fails, like the other by-id reads.
C21_PerformanceByIdOutcome ==
    (/\ pc = "done" /\ req.route = "GetJobPerformance"
     /\ Reached /\ req.id # "")
       => /\ Len(upstream) = 1
          /\ LET reply == upstream[1].reply
             IN  /\ Failed(reply) => resp.status = 500
                 /\ (~Failed(reply) /\ reply.data.t = "null") => resp.status = 404

\* C27: GetMetrics and GetTrends never answer 4xx for their dates: a
\* startDate or endDate that is absent or not in YYYY-MM-DD form is replaced
\* by its default (start: now minus 30 days for metrics, now minus 3 months
\* for trends; end: now), each date on its own, and the one upstream query
\* is issued with the resulting range.
C27_InForm(s) ==
    /\ Len(s) = 10
    /\ \A i \in 1..10 :
          IF i \in {5, 8} THEN s[i] = "-"
          ELSE s[i] \in {"0", "1", "2", "3", "4", "5", "6", "7", "8", "9"}

C27_Unusable(q, k) == k \notin DOMAIN q \/ ~C27_InForm(q[k])

C27_DefaultStart(route, now) ==
    IF route = "GetMetrics"
    THEN Instant(DaysFromCivil(now.y, now.m, now.d) - 30, now.half)
    ELSE IF now.m > 3
    THEN Instant(DaysFromCivil(now.y, now.m - 3, now.d), now.half)
    ELSE Instant(DaysFromCivil(now.y - 1, now.m + 9, now.d), now.half)

C27_DatesFallBack ==
    (pc = "done" /\ req.route \in {"GetMetrics", "GetTrends"} /\ Reached)
       => /\ resp.status \notin 400..499
          /\ Len(upstream) = 1
          /\ upstream[1].op = "GetRecruitmentMetricsQuery"
          /\ \E now \in Nows :
                LET range == upstream[1].variables["dateRange"]
                IN  /\ C27_Unusable(req.query, "startDate")
                          => range.start = C27_DefaultStart(req.route, now)
                    /\ C27_Unusable(req.query, "endDate")
                          => range.end =
                                Instant(DaysFromCivil(now.y, now.m, now.d), now.half)

\* C27 witness: a metrics request whose startDate is not in the form and
\* whose endDate is a date: the start is 30 days before now, the end is the
\* supplied date
C27_Witness ==
    /\ pc = "done" /\ req.route = "GetMetrics"
    /\ Get(req.query, "startDate") = <<"0", "3", "/", "0", "1", "/", "2", "0", "2", "6">>
    /\ Get(req.query, "endDate") = <<"2", "0", "2", "6", "-", "0", "3", "-", "0", "1">>
    /\ Len(upstream) = 1
    /\ upstream[1].variables["dateRange"].start =
          Instant(DaysFromCivil(2026, 10, 4), 0)
    /\ upstream[1].variables["dateRange"].end =
          Instant(DaysFromCivil(2026, 3, 1), 0)

\* C28: the dateRange that GetMetrics and GetTrends send upstream has
\* start <= end, whatever startDate and endDate are supplied.
C28_RangeOrdered ==
    \A i \in 1..Len(upstream) :
        "dateRange" \in DOMAIN upstream[i].variables
           => upstream[i].variables["dateRange"].start
                 <= upstream[i].variables["dateRange"].end

\* C29: with a key configured, a send that posts to the provider returns an
\* error exactly when the request fails in transport or the provider
\* answers with a status outside 200..299, and nil exactly when the
\* provider answers 2xx.
C29_ErrorIffNot2xx ==
    sendGridKey # ""
       => \A i \in 1..Len(mail) :
             mail[i].posted
                => (mail[i].err <=>
                       (\/ mail[i].reply.transport # "ok"
                        \/ mail[i].reply.status \notin 200..299))

\* C22: in the job detail page, once jobsAPI.get has succeeded, onMount ends
\* with the page showing the job (loading false, error null, job set),
\* whatever the outcome of the view-increment call.
C22_ViewNeverBlocksPage ==
    (detail.onMount = "returned" /\ detail.job # JNull)
       => /\ ~detail.loading
          /\ detail.error = JNull
          /\ Truthy(detail.job)

\* C23: the body handleSubmit posts to /applications with every form field
\* filled holds every key SubmitApplication requires, and the body
\* getPresignedURL posts for a PDF passes the content-type check of
\* GetPresignedURL.
C23_FrontendBodiesAccepted ==
    \A i \in 1..Len(detail.sent) :
        LET body == detail.sent[i].body
        IN  /\ (/\ detail.sent[i].endpoint = "/applications"
                /\ \A k \in DOMAIN detail.formData :
                      k # "resumeFile" => detail.formData[k] # <<>>)
                  => /\ ~DecodeMap(body).err
                     /\ FirstMissing(SubmitRequired, DecodeMap(body).m) = 0
            /\ (/\ detail.sent[i].endpoint = "/upload/presigned-url"
                /\ detail.formData.resumeFile.v.type = "application/pdf")
                  => /\ ~DecodePresign(body).err
                     /\ DecodePresign(body).contentType \in AllowedTypes

\* C24: in the jobs store, loading is true whenever a fetchJobs call has
\* started and not yet settled.
C24_LoadingWhileInFlight ==
    (\E i \in 1..Len(fetches) : fetches[i] = "pending") => jobsStore.loading

\* C25: in the jobs store, when no fetchJobs call is in flight and the call
\* started last has succeeded, error is null.
C25_NoErrorAfterLastSuccess ==
    (/\ fetches # <<>>
     /\ \A i \in 1..Len(fetches) : fetches[i] # "pending"
     /\ fetches[Len(fetches)] = "ok")
       => jobsStore.error = JNull

\* C26: a fetchJobs call begins only in a step that mounts Home or clicks
\* Try Again, one call per such step, and every mount of Home begins one;
\* the step in which a call fails leaves the store with loading false, an
\* error set and the jobs it had, and begins no call.
C26_FetchOnlyOnTrigger ==
    [][/\ Len(fetches') > Len(fetches)
          => /\ Len(fetches') = Len(fetches) + 1
             /\ \/ page # "Home" /\ page' = "Home"
                \/ /\ page = "Home" /\ page' = "Home"
                   /\ ~jobsStore.loading /\ Truthy(jobsStore.error)
       /\ (page # "Home" /\ page' = "Home") => Len(fetches') = Len(fetches) + 1
       /\ \A i \in 1..Len(fetches) :
             (fetches[i] = "pending" /\ fetches'[i] = "failed")
                => /\ Len(fetches') = Len(fetches)
                   /\ ~jobsStore'.loading
                   /\ Truthy(jobsStore'.error)
                   /\ jobsStore'.jobs = jobsStore.jobs]_vars

\* C26 witness: the list was loaded, Home was mounted again and that load
\* failed: the store rests with the error and the jobs of the first load
C26_Witness ==
    /\ fetches = <<"ok", "failed">>
    /\ page = "Home"
    /\ ~jobsStore.loading
    /\ Truthy(jobsStore.error)
    /\ jobsStore.jobs = JArr(<<JStr("job-7")>>)

\* C30: in the application form, resumeUploading is true only while
\* submitting is true; when handleSubmit is not running, resumeUploading is
\* false.
C30_UploadingOnlyWhileSubmitting ==
    /\ detail.resumeUploading => detail.submitting
    /\ detail.handleSubmit = "idle" => ~detail.resumeUploading

====
